---- MODULE Spec2Model ----
(***************************************************************************)
(* Model of the allocation / scheduling engine of gemini-scheduler        *)
(* (src/services/scheduleEngine.ts) and of the application handlers that  *)
(* feed it (src/App.tsx, src/components/TeamMemberList.tsx).               *)
(*                                                                         *)
(* Representation choices                                                  *)
(*  - A string id is the sequence of its dash-free segments: "pm" is      *)
(*    <<"pm">>, "role-17" is <<"role","17">>.  `a + "-" + b` is the        *)
(*    concatenation of the segment sequences and key.split('-') is the     *)
(*    segment sequence itself.                                             *)
(*  - A date is the number of days since Jan 1 of config.year (0-based);   *)
(*    the timeline headers are the Mondays of that year.                   *)
(*  - A real number produced by the hour arithmetic is an exact fraction   *)
(*    <<num, den>> with den > 0; Math.round is floor(x + 1/2).             *)
(*  - A JavaScript object used as a map is a function with a finite        *)
(*    domain; a missing key is a value outside the domain.                 *)
(*  - Numbers are exact: hours, budgets and scores are integers or        *)
(*    fractions of integers.  A double that is NaN or has left the finite  *)
(*    range (a score of -Infinity) is outside the model.                   *)
(*  - Project ids are unique within a list.  The projects given to the    *)
(*    assigner and to the optimizer carry their phasesConfig, as the       *)
(*    ProjectInput type and addProject guarantee; the fallback to          *)
(*    config.phases is modelled where the schedule and the loads are read. *)
(***************************************************************************)
EXTENDS Integers, Sequences, FiniteSets, TLC

VARIABLES
    config,          \* App state: GlobalConfig
    projects,        \* App state: ProjectInput[]
    scheduleData,    \* useMemo(generateSchedule(projects, config))
    pc,              \* position of the modelled computation
    workingProjects, \* assignStaffToPlaceholders: the deep copy being staffed
    tasks,           \* assignStaffToPlaceholders: the sorted Task list
    taskIndex,       \* assignStaffToPlaceholders: the Task tasks.forEach is at
    weeklyLoads,     \* assignStaffToPlaceholders: the running load table
    warnings,        \* assignStaffToPlaceholders: the warnings list
    currentProjects, \* optimizeProjectTiming: its argument
    bestProjects,    \* optimizeProjectTiming: the list being optimized
    bestCost,        \* optimizeProjectTiming: the cost of the accepted list
    iter,            \* optimizeProjectTiming: the loop counter i
    optimized,       \* what the last call returned
    firstRun,        \* what the first of two runs on the same input returned
    rounded,         \* the last weekly rate rounded, by the site that rounded it
    pending          \* App: the projects the timer callback of handleOptimize closed over

assignVars == <<workingProjects, tasks, taskIndex, weeklyLoads, warnings>>
timingVars == <<currentProjects, bestProjects, bestCost, iter>>
vars == <<config, projects, scheduleData, pc, workingProjects, tasks, taskIndex,
          weeklyLoads, warnings, currentProjects, bestProjects, bestCost, iter,
          optimized, firstRun, rounded, pending>>

-----------------------------------------------------------------------------
(* Generic helpers                                                         *)

Max(a, b) == IF a >= b THEN a ELSE b
Min(a, b) == IF a <= b THEN a ELSE b

RECURSIVE SumTo(_, _)
SumTo(s, n) == IF n = 0 THEN 0 ELSE s[n] + SumTo(s, n - 1)

SumSeq(s) == SumTo(s, Len(s))

RECURSIVE Flatten(_)
Flatten(ss) == IF ss = <<>> THEN <<>> ELSE Head(ss) \o Flatten(Tail(ss))

Range(s) == {s[i] : i \in DOMAIN s}

EmptyMap == [x \in {} |-> 0]

\* the ids of config.staffTypes
StaffIdsOfConfig(cfg) == {cfg.staffTypes[s].id : s \in DOMAIN cfg.staffTypes}

-----------------------------------------------------------------------------
(* Program constants                                                       *)

\* new Array(53): the length of every load array and the cap of the header loop
WEEKS == 53

\* the granularity of canonical rounding: Math.round(x / 4) * 4
GRAIN == 4

PLACEHOLDER == <<"placeholder">>

\* const iterations = 5000
iterations == 5000

-----------------------------------------------------------------------------
(* Bounds of the model                                                     *)

\* the optimizer's loop is explored for min(iterations, MaxIterations) iterations
MaxIterations == 3

\* projects are added until the list holds this many
MaxProjects == 2

\* highest split index that an hour-override key of the inputs refers to
MaxSplit == 2

\* parseInt is modelled on the decimal strings of 0..MaxParse
MaxParse == 20

-----------------------------------------------------------------------------
(* Canonical rounding                                                      *)

\* Math.round(x) for x = num/den, den > 0: floor(x + 1/2)
MathRound(num, den) == (2 * num + den) \div (2 * den)

\* CanonicalRound without the promotion of 0 to 4
CanonicalRound_NoPromotion(num, den) == MathRound(num, GRAIN * den) * GRAIN

\* let base = Math.round(raw / 4) * 4; if (base === 0 && raw > 0) base = 4;
\* raw = num/den
CanonicalRound(num, den) ==
    LET base == MathRound(num, GRAIN * den) * GRAIN
    IN  IF base = 0 /\ num > 0 THEN GRAIN ELSE base

-----------------------------------------------------------------------------
(* Strings                                                                 *)

\* `${n}` for a number n
NumStr(n) == ToString(n)

IsNumStr(s) == \E n \in 0..MaxParse : ToString(n) = s

\* parseInt(s) when s is a decimal string; NaN otherwise (guarded by IsNumStr)
ParseInt(s) == CHOOSE n \in 0..MaxParse : ToString(n) = s

\* `${staffId}-${staffIndex}`
StaffKey(staffId, staffIndex) == staffId \o <<NumStr(staffIndex)>>

-----------------------------------------------------------------------------
(* project.phasesConfig || config.phases                                   *)

\* PhasesOf that reads the live config whatever the project holds
PhasesOf_ConfigFirst(project, cfg) == cfg.phases

\* const phases = project.phasesConfig || config.phases; a project without the
\* field is a record without it
PhasesOf(project, cfg) ==
    IF "phasesConfig" \in DOMAIN project THEN project.phasesConfig ELSE cfg.phases

\* the project as calculateWeeklyAggregates and generateSchedule read it
Resolved(project, cfg) ==
    [f \in DOMAIN project \cup {"phasesConfig"} |->
        IF f = "phasesConfig" THEN PhasesOf(project, cfg) ELSE project[f]]

-----------------------------------------------------------------------------
(* calculateWeeklyAggregates                                               *)

\* the weekly hours one allocation slot adds (lines 34-39); 0 when the slot is
\* skipped by `if (staffHoursTotal <= 0) return`
AggregateWeekly(project, phaseConfig, sa) ==
    LET staffHoursTotal == project.budgetHours * phaseConfig.percentBudget * sa.percentage
    IN  IF staffHoursTotal <= 0 THEN 0
        ELSE CanonicalRound(staffHoursTotal, 100 * 100 * phaseConfig.maxWeeks)

\* AggregateStart that lets a phase of negative duration move the cursor back
RECURSIVE AggregateStart_Signed(_, _)
AggregateStart_Signed(project, k) ==
    IF k = 1 THEN project.startWeekOffset
    ELSE AggregateStart_Signed(project, k - 1) + project.phasesConfig[k - 1].maxWeeks

\* currentWeekIndex at phase k: a phase of duration <= 0 returns before
\* `currentWeekIndex += duration`, so it does not move the cursor
RECURSIVE AggregateStart(_, _)
AggregateStart(project, k) ==
    IF k = 1 THEN project.startWeekOffset
    ELSE AggregateStart(project, k - 1) + Max(0, project.phasesConfig[k - 1].maxWeeks)

\* the hours project adds to staffLoads[staffId][weekIdx]
ProjectLoad(project, staffId, weekIdx) ==
    LET phases == project.phasesConfig
    IN  SumSeq([k \in DOMAIN phases |->
            IF /\ phases[k].maxWeeks > 0
               /\ weekIdx >= AggregateStart(project, k)
               /\ weekIdx < AggregateStart(project, k) + phases[k].maxWeeks
            THEN SumSeq([a \in DOMAIN phases[k].staffAllocation |->
                    IF phases[k].staffAllocation[a].staffTypeId = staffId
                    THEN AggregateWeekly(project, phases[k], phases[k].staffAllocation[a])
                    ELSE 0])
            ELSE 0])

\* the staff ids a project's slots add hours for at some week 0..52: an id missing
\* from config.staffTypes gets its array on its first such week (line 44)
LoadedStaffIds(project) ==
    LET phases == project.phasesConfig
    IN  {phases[k].staffAllocation[a].staffTypeId :
            <<k, a>> \in {x \in UNION {{<<k, a>> : a \in DOMAIN phases[k].staffAllocation} :
                                         k \in DOMAIN phases} :
                LET ph == phases[x[1]]
                IN  /\ ph.maxWeeks > 0
                    /\ project.budgetHours * ph.percentBudget
                          * ph.staffAllocation[x[2]].percentage > 0
                    /\ \E w \in 0..(WEEKS - 1) :
                          /\ w >= AggregateStart(project, x[1])
                          /\ w < AggregateStart(project, x[1]) + ph.maxWeeks}}

\* calculateWeeklyAggregates(projects, config): staffId -> [0..52 -> hours]
calculateWeeklyAggregates(projs, cfg) ==
    LET read == [p \in DOMAIN projs |-> Resolved(projs[p], cfg)]
        ids  == StaffIdsOfConfig(cfg) \cup UNION {LoadedStaffIds(read[p]) : p \in DOMAIN projs}
    IN  [id \in ids |->
            [w \in 0..(WEEKS - 1) |->
                SumSeq([p \in DOMAIN projs |-> ProjectLoad(read[p], id, w)])]]

-----------------------------------------------------------------------------
(* assignStaffToPlaceholders                                               *)

\* hoursPerWeek of a Task (lines 91-95)
TaskHoursPerWeek(project, phase, alloc) ==
    LET staffHoursTotal == project.budgetHours * phase.percentBudget * alloc.percentage
        hoursPerWeek == MathRound(staffHoursTotal, 100 * 100 * phase.maxWeeks * GRAIN) * GRAIN
    IN  IF hoursPerWeek = 0 /\ staffHoursTotal > 0 THEN GRAIN ELSE hoursPerWeek

\* currentWeek at phase k: `currentWeek += duration` runs for every phase
RECURSIVE TaskStart(_, _)
TaskStart(project, k) ==
    IF k = 1 THEN project.startWeekOffset
    ELSE TaskStart(project, k - 1) + project.phasesConfig[k - 1].maxWeeks

\* ProjectTasks that makes a Task of every slot with hours, concrete ones included
ProjectTasks_AllSlots(project) ==
    LET phases == project.phasesConfig
        slotTasks(k) ==
            LET al == phases[k].staffAllocation
                made == [a \in DOMAIN al |->
                    [projectId |-> project.id, projectName |-> project.id,
                     phaseIndex |-> k, allocIndex |-> a,
                     startWeek |-> TaskStart(project, k), duration |-> phases[k].maxWeeks,
                     hoursPerWeek |-> IF phases[k].maxWeeks > 0
                                      THEN TaskHoursPerWeek(project, phases[k], al[a]) ELSE 0,
                     requiredSkills |-> project.requiredSkills, team |-> project.team,
                     isTask |-> phases[k].maxWeeks > 0 /\ al[a].percentage > 0]]
            IN  SelectSeq(made, LAMBDA t : t.isTask)
    IN  Flatten([k \in DOMAIN phases |-> slotTasks(k)])

\* the Tasks of one project, in phase then slot order (lines 84-112); the project's
\* name is not modelled, its id stands for it
ProjectTasks(project) ==
    LET phases == project.phasesConfig
        slotTasks(k) ==
            LET al == phases[k].staffAllocation
                made == [a \in DOMAIN al |->
                    [projectId |-> project.id, projectName |-> project.id,
                     phaseIndex |-> k, allocIndex |-> a,
                     startWeek |-> TaskStart(project, k), duration |-> phases[k].maxWeeks,
                     hoursPerWeek |-> IF phases[k].maxWeeks > 0
                                      THEN TaskHoursPerWeek(project, phases[k], al[a]) ELSE 0,
                     requiredSkills |-> project.requiredSkills, team |-> project.team,
                     isTask |-> /\ phases[k].maxWeeks > 0
                                /\ al[a].staffTypeId = PLACEHOLDER
                                /\ al[a].percentage > 0]]
            IN  SelectSeq(made, LAMBDA t : t.isTask)
    IN  Flatten([k \in DOMAIN phases |-> slotTasks(k)])

Effort(task) == task.hoursPerWeek * task.duration

\* InsertTask that puts a Task before the Tasks of equal effort
RECURSIVE InsertTask_Unstable(_, _)
InsertTask_Unstable(sorted, task) ==
    IF sorted = <<>> THEN <<task>>
    ELSE IF Effort(Head(sorted)) > Effort(task)
         THEN <<Head(sorted)>> \o InsertTask_Unstable(Tail(sorted), task)
         ELSE <<task>> \o sorted

\* tasks.sort((a, b) => effort(b) - effort(a)): a stable sort, so Tasks of equal
\* effort keep their order
RECURSIVE InsertTask(_, _)
InsertTask(sorted, task) ==
    IF sorted = <<>> THEN <<task>>
    ELSE IF Effort(Head(sorted)) >= Effort(task)
         THEN <<Head(sorted)>> \o InsertTask(Tail(sorted), task)
         ELSE <<task>> \o sorted

RECURSIVE SortTasks(_)
SortTasks(ts) ==
    IF ts = <<>> THEN <<>>
    ELSE InsertTask(SortTasks(SubSeq(ts, 1, Len(ts) - 1)), ts[Len(ts)])

\* workingProjects.find(p => p.id === task.projectId): the first one
FindProject(projs, projectId) ==
    CHOOSE n \in DOMAIN projs :
        /\ projs[n].id = projectId
        /\ \A m \in DOMAIN projs : projs[m].id = projectId => n <= m

\* AssignedStaff that leaves out the slots at 0%
AssignedStaff_Positive(project) ==
    UNION {{project.phasesConfig[k].staffAllocation[a].staffTypeId :
               a \in {b \in DOMAIN project.phasesConfig[k].staffAllocation :
                         project.phasesConfig[k].staffAllocation[b].percentage > 0}} :
           k \in DOMAIN project.phasesConfig} \ {PLACEHOLDER}

\* AssignedStaff that excludes nobody
AssignedStaff_Nobody(project) == {}

\* assignedStaff: every non-placeholder id of the project, in any phase (lines 122-129)
AssignedStaff(project) ==
    UNION {{project.phasesConfig[k].staffAllocation[a].staffTypeId :
               a \in DOMAIN project.phasesConfig[k].staffAllocation} :
           k \in DOMAIN project.phasesConfig} \ {PLACEHOLDER}

\* candidates, in config.staffTypes order (lines 131-134)
Candidates(projs, cfg, task) ==
    SelectSeq(cfg.staffTypes,
              LAMBDA st : /\ st.id # PLACEHOLDER
                          /\ st.id \notin AssignedStaff(projs[FindProject(projs, task.projectId)]))

SkillBonus(level) ==
    CASE level = "Beginner" -> 10
      [] level = "Intermediate" -> 20
      [] level = "Advanced" -> 30
      [] OTHER -> 0

\* weeklyLoads[id]?.[weekIdx] || 0
LoadAt(loads, id, weekIdx) ==
    IF id \in DOMAIN loads /\ weekIdx \in DOMAIN loads[id] THEN loads[id][weekIdx] ELSE 0

\* Score without the overtime penalty
Score_NoPenalty(loads, candidate, task) ==
    LET teamBonus == IF candidate.team = task.team THEN 50 ELSE 0
        skillBonus == SumSeq([n \in DOMAIN task.requiredSkills |->
                          IF task.requiredSkills[n] \in DOMAIN candidate.skills
                          THEN SkillBonus(candidate.skills[task.requiredSkills[n]]) ELSE 0])
        newLoad(w) == LoadAt(loads, candidate.id, task.startWeek + w) + task.hoursPerWeek
        utilizationReward == SumSeq([n \in 1..task.duration |->
                                 IF task.startWeek + n - 1 < WEEKS
                                    /\ newLoad(n - 1) <= candidate.maxHoursPerWeek
                                 THEN task.hoursPerWeek ELSE 0])
    IN  teamBonus + skillBonus + utilizationReward * 1

\* the score of a candidate (lines 140-176)
Score(loads, candidate, task) ==
    LET teamBonus == IF candidate.team = task.team THEN 50 ELSE 0
        skillBonus == SumSeq([n \in DOMAIN task.requiredSkills |->
                          IF task.requiredSkills[n] \in DOMAIN candidate.skills
                          THEN SkillBonus(candidate.skills[task.requiredSkills[n]]) ELSE 0])
        newLoad(w) == LoadAt(loads, candidate.id, task.startWeek + w) + task.hoursPerWeek
        counted(w) == task.startWeek + w < WEEKS
        over(w) == newLoad(w) > candidate.maxHoursPerWeek
        overtimePenalty == SumSeq([n \in 1..task.duration |->
                               IF counted(n - 1) /\ over(n - 1)
                               THEN (newLoad(n - 1) - candidate.maxHoursPerWeek)
                                    * (newLoad(n - 1) - candidate.maxHoursPerWeek)
                               ELSE 0])
        utilizationReward == SumSeq([n \in 1..task.duration |->
                                 IF counted(n - 1) /\ ~over(n - 1)
                                 THEN task.hoursPerWeek ELSE 0])
    IN  teamBonus + skillBonus - overtimePenalty * 10 + utilizationReward * 1

\* InitialBest with bestScore starting at 0
InitialBest_Zero == [candidate |-> 0, negInfinity |-> FALSE, score |-> 0]

\* let bestCandidate = null; let bestScore = -Infinity
InitialBest == [candidate |-> 0, negInfinity |-> TRUE, score |-> 0]

\* candidates.forEach(c => { if (score > bestScore) { bestScore = score; bestCandidate = c } })
RECURSIVE PickBest(_, _, _, _)
PickBest(loads, cands, task, n) ==
    IF n = 0 THEN InitialBest
    ELSE LET best  == PickBest(loads, cands, task, n - 1)
             score == Score(loads, cands[n], task)
         IN  IF best.negInfinity \/ score > best.score
             THEN [candidate |-> n, negInfinity |-> FALSE, score |-> score]
             ELSE best

\* the index in candidates of bestCandidate, 0 for null
BestCandidate(loads, cands, task) == PickBest(loads, cands, task, Len(cands)).candidate

\* p.phasesConfig[phaseIndex].staffAllocation[allocIndex].staffTypeId = candId
BindSlot(projs, task, candId) ==
    [projs EXCEPT ![FindProject(projs, task.projectId)].phasesConfig[task.phaseIndex]
                      .staffAllocation[task.allocIndex].staffTypeId = candId]

\* weeklyLoads[candId][weekIdx] += task.hoursPerWeek for the weeks below 53; a
\* negative index is never read back as a load
AddLoad(loads, task, candId) ==
    [loads EXCEPT ![candId] =
        [w \in DOMAIN @ |->
            IF w >= task.startWeek /\ w < task.startWeek + task.duration
            THEN @[w] + task.hoursPerWeek ELSE @[w]]]

-----------------------------------------------------------------------------
(* optimizeProjectTiming                                                   *)

RECURSIVE SetSum(_, _)
SetSum(S, f) ==
    IF S = {} THEN 0
    ELSE LET x == CHOOSE y \in S : TRUE IN f[x] + SetSum(S \ {x}, f)

\* getCost that squares each staff type's hours on their own
getCost_PerStaff(projs, cfg) ==
    LET loads == calculateWeeklyAggregates(projs, cfg)
    IN  SetSum(DOMAIN loads,
               [id \in DOMAIN loads |->
                   SumSeq([w \in 1..WEEKS |-> loads[id][w - 1] * loads[id][w - 1]])])

\* getCost: the sum over the weeks of the square of the organization-wide load
getCost(projs, cfg) ==
    LET loads == calculateWeeklyAggregates(projs, cfg)
        totalWeeklyLoad == [w \in 0..(WEEKS - 1) |->
                               SetSum(DOMAIN loads, [id \in DOMAIN loads |-> loads[id][w]])]
    IN  SumSeq([w \in 1..WEEKS |-> totalWeeklyLoad[w - 1] * totalWeeklyLoad[w - 1]])

\* getProjectDuration: phases.reduce((sum, phase) => sum + phase.maxWeeks, 0)
getProjectDuration(project) ==
    SumSeq([k \in DOMAIN project.phasesConfig |-> project.phasesConfig[k].maxWeeks])

\* projectConstraints[i].maxStart = Math.max(0, 52 - duration)
MaxStart(project) == Max(0, (WEEKS - 1) - getProjectDuration(project))

\* UnlockedIndices that takes the locked projects too
UnlockedIndices_All(projs) == DOMAIN projs

\* unlockedIndices
UnlockedIndices(projs) == {i \in DOMAIN projs : ~projs[i].locked}

\* ClampOffsets that moves the locked projects too
ClampOffsets_Locked(projs) ==
    [i \in DOMAIN projs |->
        IF projs[i].startWeekOffset > MaxStart(projs[i])
        THEN [projs[i] EXCEPT !.startWeekOffset = MaxStart(projs[i])]
        ELSE projs[i]]

\* ClampOffsets with the defensive pass left out
ClampOffsets_None(projs) == projs

\* the defensive pass after the loop (lines 279-286)
ClampOffsets(projs) ==
    [i \in DOMAIN projs |->
        IF ~projs[i].locked /\ projs[i].startWeekOffset > MaxStart(projs[i])
        THEN [projs[i] EXCEPT !.startWeekOffset = MaxStart(projs[i])]
        ELSE projs[i]]

-----------------------------------------------------------------------------
(* Timeline headers (generateSchedule, step 1)                             *)

IsLeap(year) == (year % 4 = 0 /\ year % 100 # 0) \/ year % 400 = 0

DaysInYear(year) == IF IsLeap(year) THEN 366 ELSE 365

\* new Date(year, 0, 1).getDay(): 0 = Sunday ... 6 = Saturday
Jan1Dow(year) ==
    (1 + 5 * ((year - 1) % 4) + 4 * ((year - 1) % 100) + 6 * ((year - 1) % 400)) % 7

\* startOfWeek(startOfYear(..), {weekStartsOn: 1}), moved one week on when it
\* falls in the previous year
FirstMonday(year) ==
    LET startDate == 0 - ((Jan1Dow(year) + 6) % 7)
    IN  IF startDate < 0 THEN startDate + 7 ELSE startDate

\* for (i = 0; i < 53; i++) { d = addWeeks(currentMonday, i);
\*   if (d.getFullYear() > year) break; headers.push(d) }
Headers(year) ==
    LET first == FirstMonday(year)
        days  == DaysInYear(year)
        \* the dates grow with i, so the loop stops at the first one past the year
        n == Cardinality({i \in 0..(WEEKS - 1) : first + 7 * i < days})
    IN  [i \in 1..n |-> first + 7 * (i - 1)]

-----------------------------------------------------------------------------
(* generateSchedule: allocation profiles and effective phases              *)

NoPhase == ""       \* undefined / falsy phase name
NullPhase == "null" \* cell.phase = null

HasProfile(phases, name) == \E k \in DOMAIN phases : phases[k].name = name

\* ProfileRate with the division by the phase duration forgotten
ProfileRate_NoDuration(project, name, staffId) ==
    LET phases == project.phasesConfig
        k  == CHOOSE i \in DOMAIN phases :
                  /\ phases[i].name = name
                  /\ \A j \in DOMAIN phases : phases[j].name = name => j <= i
        p  == phases[k]
        sl == {a \in DOMAIN p.staffAllocation : p.staffAllocation[a].staffTypeId = staffId}
    IN  IF sl = {} THEN <<0, 1>>
        ELSE LET a == CHOOSE x \in sl : \A y \in sl : y <= x
             IN  <<project.budgetHours * p.percentBudget * p.staffAllocation[a].percentage,
                   100 * 100>>

\* phaseProfiles[name][staffId] || 0, as the fraction <<num, den>>:
\* phaseProfiles[p.name] = {} is reset by every phase of that name and every
\* slot of a staff id overwrites the earlier ones, so the last one stands.
ProfileRate(project, name, staffId) ==
    LET phases == project.phasesConfig
        k  == CHOOSE i \in DOMAIN phases :
                  /\ phases[i].name = name
                  /\ \A j \in DOMAIN phases : phases[j].name = name => j <= i
        p  == phases[k]
        sl == {a \in DOMAIN p.staffAllocation : p.staffAllocation[a].staffTypeId = staffId}
        duration == Max(1, p.maxWeeks)
    IN  IF sl = {} THEN <<0, 1>>
        ELSE LET a == CHOOSE x \in sl : \A y \in sl : y <= x
             IN  <<project.budgetHours * p.percentBudget * p.staffAllocation[a].percentage,
                   100 * duration * 100>>

\* AllocatedStaffIds counting only the slots with a positive percentage
AllocatedStaffIds_PositiveOnly(project) ==
    UNION {{project.phasesConfig[k].staffAllocation[a].staffTypeId :
               a \in {x \in DOMAIN project.phasesConfig[k].staffAllocation :
                          project.phasesConfig[k].staffAllocation[x].percentage > 0}} :
           k \in DOMAIN project.phasesConfig}

\* allocatedStaffIds: every staffTypeId listed in some phase, even at 0%
AllocatedStaffIds(project) ==
    UNION {{project.phasesConfig[k].staffAllocation[a].staffTypeId :
               a \in DOMAIN project.phasesConfig[k].staffAllocation} :
           k \in DOMAIN project.phasesConfig}

\* the natural timeline: phases.forEach(p => { for (i < p.maxWeeks) {
\*   if (weekCursor < headers.length) weeklyPhases[headers[weekCursor]] = p.name;
\*   weekCursor++ } })
RECURSIVE WalkPhases(_, _, _, _)
WalkPhases(phases, k, weekCursor, acc) ==
    IF k > Len(phases) THEN acc
    ELSE LET mw == phases[k].maxWeeks
         IN  WalkPhases(phases, k + 1, weekCursor + Max(0, mw),
                 [w \in DOMAIN acc |->
                     IF w - 1 >= weekCursor /\ w - 1 < weekCursor + mw
                     THEN phases[k].name ELSE acc[w]])

\* weeklyPhases, indexed by header position 1..Len(headers)
WeeklyPhases(project, headers) ==
    LET weekCursor == Max(0, Min(project.startWeekOffset, Len(headers) - 1))
        natural == WalkPhases(project.phasesConfig, 1, weekCursor,
                              [w \in 1..Len(headers) |-> NoPhase])
    IN  [w \in 1..Len(headers) |->
            IF headers[w] \in DOMAIN project.overrides.phase
            THEN project.overrides.phase[headers[w]]
            ELSE natural[w]]

-----------------------------------------------------------------------------
(* generateSchedule: rows                                                  *)

\* Object.keys(overrides.staff).forEach(key => { const [sId, sIdx] = key.split('-');
\*   if (sId === staff.id) { idx = parseInt(sIdx); if (idx > max) max = idx } })
\* sId is the first segment alone, so it equals staff.id only for a one-segment id
MaxOverrideIndex(project, staffId) ==
    LET idxs == {ParseInt(key[2]) :
                    key \in {x \in DOMAIN project.overrides.staff :
                                /\ <<x[1]>> = staffId
                                /\ Len(x) >= 2
                                /\ IsNumStr(x[2])}}
    IN  IF idxs = {} THEN 0 ELSE CHOOSE m \in idxs : \A n \in idxs : n <= m

\* maxWeeklyLoadCalculated > 0
HasCalculatedLoad(project, staffId, weeklyPhases) ==
    \E w \in DOMAIN weeklyPhases :
        /\ weeklyPhases[w] # NoPhase
        /\ HasProfile(project.phasesConfig, weeklyPhases[w])
        /\ ProfileRate(project, weeklyPhases[w], staffId)[1] > 0

\* let numSplits = Math.max(calculatedSplits, maxOverrideIndex);
\* if (maxLoad === 0 && maxOverrideIndex === 0 && !isExplicitlyAllocated) numSplits = 0
NumSplits(project, staffId, weeklyPhases) ==
    IF /\ ~HasCalculatedLoad(project, staffId, weeklyPhases)
       /\ MaxOverrideIndex(project, staffId) = 0
       /\ staffId \notin AllocatedStaffIds(project)
    THEN 0
    ELSE Max(1, MaxOverrideIndex(project, staffId))

HasHourOverride(project, staffKey, date) ==
    /\ staffKey \in DOMAIN project.overrides.staff
    /\ date \in DOMAIN project.overrides.staff[staffKey]

\* phaseProfiles[phaseName][staff.id] with phaseProfiles[phaseName] undefined
CellThrows(project, staffKey, date, phaseName) ==
    /\ ~HasHourOverride(project, staffKey, date)
    /\ phaseName # NoPhase
    /\ ~HasProfile(project.phasesConfig, phaseName)

\* the hours and the override flag of one cell (lines 424-444)
CellHours(project, staffId, numSplits, staffKey, date, phaseName) ==
    IF HasHourOverride(project, staffKey, date)
    THEN project.overrides.staff[staffKey][date]
    ELSE IF phaseName # NoPhase /\ HasProfile(project.phasesConfig, phaseName)
         THEN LET raw == ProfileRate(project, phaseName, staffId)
              IN  IF raw[1] > 0 THEN CanonicalRound(raw[1], raw[2] * numSplits) ELSE 0
         ELSE 0

\* one cell of a row (lines 420, 446-453)
MakeCell(project, staffId, numSplits, staffKey, date, phaseName) ==
    LET isOverride == HasHourOverride(project, staffKey, date)
        cellHours  == CellHours(project, staffId, numSplits, staffKey, date, phaseName)
    IN  IF cellHours > 0 \/ isOverride
        THEN [date |-> date, hours |-> cellHours,
              phase |-> IF phaseName # NoPhase THEN phaseName ELSE NullPhase,
              isOverride |-> IF isOverride THEN "true" ELSE "false"]
        ELSE [date |-> date, hours |-> 0, phase |-> NullPhase, isOverride |-> "undefined"]

MakeRow(project, staffId, numSplits, staffIndex, headers, weeklyPhases) ==
    LET staffKey == StaffKey(staffId, staffIndex)
        cells == [w \in 1..Len(headers) |->
                    MakeCell(project, staffId, numSplits, staffKey, headers[w], weeklyPhases[w])]
    IN  [projectId |-> project.id, staffTypeId |-> staffId, staffIndex |-> staffIndex,
         cells |-> cells,
         totalHours |-> SumSeq([w \in 1..Len(headers) |-> cells[w].hours])]

\* hasAnyHours: some cell had cellHours > 0 or an override
HasAnyHours(row) == \E w \in DOMAIN row.cells : row.cells[w].isOverride # "undefined"

\* if (numSplits > 0 && (hasAnyHours || staffIndex <= maxOverrideIndex ||
\*     (isExplicitlyAllocated && staffIndex === 1))) rows.push(..)
EmitRow(project, row) ==
    \/ HasAnyHours(row)
    \/ row.staffIndex <= MaxOverrideIndex(project, row.staffTypeId)
    \/ (row.staffTypeId \in AllocatedStaffIds(project) /\ row.staffIndex = 1)

StaffRows(project, staffId, headers, weeklyPhases) ==
    LET numSplits == NumSplits(project, staffId, weeklyPhases)
        all == [i \in 1..numSplits |->
                   MakeRow(project, staffId, numSplits, i, headers, weeklyPhases)]
    IN  SelectSeq(all, LAMBDA r : EmitRow(project, r))

StaffThrows(project, staffId, headers, weeklyPhases) ==
    \E i \in 1..NumSplits(project, staffId, weeklyPhases), w \in 1..Len(headers) :
        CellThrows(project, StaffKey(staffId, i), headers[w], weeklyPhases[w])

ProjectRows(project, cfg, headers) ==
    LET weeklyPhases == WeeklyPhases(project, headers)
    IN  Flatten([s \in 1..Len(cfg.staffTypes) |->
                    StaffRows(project, cfg.staffTypes[s].id, headers, weeklyPhases)])

ProjectThrows(project, cfg, headers) ==
    LET weeklyPhases == WeeklyPhases(project, headers)
    IN  \E s \in 1..Len(cfg.staffTypes) :
            StaffThrows(project, cfg.staffTypes[s].id, headers, weeklyPhases)

\* generateSchedule(projects, config); threw = a TypeError left the call
generateSchedule(projs, cfg) ==
    LET headers == Headers(cfg.year)
        read    == [p \in 1..Len(projs) |-> Resolved(projs[p], cfg)]
    IN  IF \E p \in 1..Len(projs) : ProjectThrows(read[p], cfg, headers)
        THEN [threw |-> TRUE, headers |-> <<>>, rows |-> <<>>]
        ELSE [threw |-> FALSE, headers |-> headers,
              rows |-> Flatten([p \in 1..Len(projs) |-> ProjectRows(read[p], cfg, headers)])]

-----------------------------------------------------------------------------
(* Application handlers that feed generateSchedule                         *)

\* handleCellUpdate(projectId, staffTypeId, staffIndex, date, value, 'hours')
CellUpdateHours(projs, projectId, staffTypeId, staffIndex, date, value) ==
    [i \in 1..Len(projs) |->
        IF projs[i].id # projectId THEN projs[i]
        ELSE LET key == StaffKey(staffTypeId, staffIndex)
                 old == projs[i].overrides.staff
                 rec == IF key \in DOMAIN old THEN old[key] ELSE EmptyMap
                 new == [d \in DOMAIN rec \cup {date} |->
                            IF d = date THEN value ELSE rec[d]]
             IN  [projs[i] EXCEPT !.overrides.staff =
                     [k \in DOMAIN old \cup {key} |-> IF k = key THEN new ELSE old[k]]]]

\* handleCellUpdate(projectId, '', 0, date, value, 'phase')
CellUpdatePhase(projs, projectId, date, value) ==
    [i \in 1..Len(projs) |->
        IF projs[i].id # projectId THEN projs[i]
        ELSE LET old == projs[i].overrides.phase
             IN  [projs[i] EXCEPT !.overrides.phase =
                     [d \in DOMAIN old \cup {date} |-> IF d = date THEN value ELSE old[d]]]]

\* addMember: id = `role-${Date.now()}`, a new staff type and a 0% slot in
\* every phase of config.phases
AddMemberConfig(cfg, timestamp, hours) ==
    LET id == <<"role", NumStr(timestamp)>>
        newStaff == [id |-> id, maxHoursPerWeek |-> hours, team |-> "", skills |-> EmptyMap]
    IN  [cfg EXCEPT
            !.staffTypes = Append(@, newStaff),
            !.phases = [k \in DOMAIN @ |->
                           [@[k] EXCEPT !.staffAllocation =
                               Append(@, [staffTypeId |-> id, percentage |-> 0])]]]

-----------------------------------------------------------------------------
(* Values of the variables a specification does not use                    *)

None == <<>>
NoRounding == [site |-> "none", raw |-> <<0, 1>>, value |-> 0]

AssignIdle ==
    /\ workingProjects = None /\ tasks = None /\ taskIndex = 0
    /\ weeklyLoads = None /\ warnings = None

TimingIdle ==
    /\ currentProjects = None /\ bestProjects = None /\ bestCost = 0 /\ iter = 0

ResultIdle == optimized = None /\ firstRun = None

-----------------------------------------------------------------------------
(* Input catalogue                                                         *)

PM   == [id |-> <<"pm">>, maxHoursPerWeek |-> 10, team |-> "Finance", skills |-> EmptyMap]
LEAD == [id |-> <<"lead">>, maxHoursPerWeek |-> 40, team |-> "IT",
         skills |-> [x \in {"Cybersecurity"} |-> "Advanced"]]
STAFF == [id |-> <<"staff">>, maxHoursPerWeek |-> 40, team |-> "Operations",
          skills |-> [x \in {"Cybersecurity"} |-> "Beginner"]]
PLACEHOLDER_STAFF ==
    [id |-> PLACEHOLDER, maxHoursPerWeek |-> 40, team |-> "General", skills |-> EmptyMap]

\* the timestamp Date.now() returns when a member is added
Timestamps == {17}
Role17 == <<"role", "17">>

Slot(id, pct) == [staffTypeId |-> id, percentage |-> pct]
Phase(name, pb, mw, alloc) ==
    [name |-> name, percentBudget |-> pb, maxWeeks |-> mw, staffAllocation |-> alloc]

NoOverrides == [phase |-> EmptyMap, staff |-> EmptyMap]

Project(id, budget, offset, locked, phases, ov) ==
    [id |-> id, budgetHours |-> budget, startWeekOffset |-> offset, locked |-> locked,
     team |-> "IT", requiredSkills |-> <<"Cybersecurity">>,
     phasesConfig |-> phases, overrides |-> ov]

\* phase snapshots of the generator's inputs
GenPhaseLists ==
    {<<Phase("Planning", 100, mw, <<Slot(<<"pm">>, pct)>>)>> :
        mw \in {1, 4, 8}, pct \in {0, 100}} \cup
    {<<Phase("Pre-Planning", 10, 2, <<Slot(<<"pm">>, 40), Slot(<<"lead">>, 60)>>),
       Phase("Planning", 90, 4, <<Slot(<<"pm">>, 10), Slot(<<"lead">>, 90)>>)>>,
     <<Phase("Pre-Planning", 50, 0, <<Slot(<<"pm">>, 100)>>),
       Phase("Planning", 50, 3, <<Slot(<<"pm">>, 50), Slot(Role17, 50)>>)>>}

GenConfig(y, st) ==
    [year |-> y, staffTypes |-> st,
     phases |-> <<Phase("Planning", 100, 4, <<Slot(<<"pm">>, 100), Slot(<<"lead">>, 0)>>)>>]

\* 2026 has 52 Mondays on or after Jan 1, 2024 has 53
GenConfigs ==
    {GenConfig(2026, <<PM, LEAD>>),
     GenConfig(2026, <<PM, LEAD, [PM EXCEPT !.id = Role17]>>),
     GenConfig(2024, <<PM, LEAD>>)}

\* dates an override of the inputs is keyed by: the first and the last Monday of the
\* timeline and a day that is no Monday
OverrideDates(year) ==
    LET h == Headers(year) IN {h[1], h[Len(h)], h[1] + 1}

OverrideHours == {0, 10}

GenStaffOverrides(year) ==
    {EmptyMap} \cup
    {[k \in {StaffKey(id, n)} |-> [d \in {date} |-> v]] :
        id \in {<<"pm">>, Role17}, n \in 1..MaxSplit,
        date \in OverrideDates(year), v \in OverrideHours}

GenPhaseOverrides(year) ==
    {EmptyMap} \cup
    {[d \in {date} |-> name] :
        date \in {Headers(year)[1], Headers(year)[Len(Headers(year))]},
        name \in {"Planning", "Reporting"}}

\* projects without overrides, over every budget, offset and snapshot
GenPlainProjects ==
    {Project("1", b, off, FALSE, ph, NoOverrides) :
        b \in {40, 400}, off \in {0, 50, 60}, ph \in GenPhaseLists}

\* override maps with one hour override, one phase override, or one of each
GenOverrides(year) ==
    {[phase |-> EmptyMap, staff |-> so] : so \in GenStaffOverrides(year)} \cup
    {[phase |-> po, staff |-> EmptyMap] : po \in GenPhaseOverrides(year)} \cup
    {[phase |-> po, staff |-> so] :
        po \in {x \in GenPhaseOverrides(year) : Headers(year)[1] \in DOMAIN x},
        so \in {x \in GenStaffOverrides(year) : StaffKey(<<"pm">>, 1) \in DOMAIN x}}

GenOverrideProjects(year) ==
    {Project("1", 400, off, FALSE, ph, ov) :
        off \in {0, 50},
        ph \in {<<Phase("Planning", 100, 4, <<Slot(<<"pm">>, 100)>>)>>,
                <<Phase("Planning", 100, 4, <<Slot(<<"pm">>, 50), Slot(Role17, 50)>>)>>},
        ov \in GenOverrides(year)}

GenSecondProject ==
    Project("2", 400, 4, TRUE,
            <<Phase("Planning", 100, 2, <<Slot(<<"lead">>, 100)>>)>>, NoOverrides)

GenProjectLists(year) ==
    {<<p>> : p \in GenPlainProjects \cup GenOverrideProjects(year)} \cup
    {<<p, GenSecondProject>> : p \in {q \in GenPlainProjects : q.budgetHours = 400 /\ q.startWeekOffset = 0}}

\* cells the schedule table lets the user edit in this model
EditValues == {12}

-----------------------------------------------------------------------------
(* The application around generateSchedule                                 *)

InitGen ==
    /\ config \in GenConfigs
    /\ projects \in GenProjectLists(config.year)
    /\ scheduleData = generateSchedule(projects, config)
    /\ pc = "ready"
    /\ AssignIdle /\ TimingIdle /\ ResultIdle /\ rounded = NoRounding /\ pending = None

\* the user types hours into a cell of a rendered row
HandleCellUpdateHours ==
    /\ pc = "ready"
    /\ ~scheduleData.threw
    /\ \E r \in DOMAIN scheduleData.rows, v \in EditValues :
          LET row == scheduleData.rows[r]
          IN  projects' = CellUpdateHours(projects, row.projectId, row.staffTypeId,
                                          row.staffIndex, scheduleData.headers[1], v)
    /\ scheduleData' = generateSchedule(projects', config)
    /\ UNCHANGED <<config, pc, assignVars, timingVars, optimized, firstRun, rounded, pending>>

\* the user picks a phase for a week of a project
HandleCellUpdatePhase ==
    /\ pc = "ready"
    /\ ~scheduleData.threw
    /\ \E p \in DOMAIN projects :
          projects' = CellUpdatePhase(projects, projects[p].id,
                                      scheduleData.headers[2], "Planning")
    /\ scheduleData' = generateSchedule(projects', config)
    /\ UNCHANGED <<config, pc, assignVars, timingVars, optimized, firstRun, rounded, pending>>

\* the user adds a team member
AddMember ==
    /\ pc = "ready"
    /\ ~scheduleData.threw
    /\ \E ts \in Timestamps :
          /\ \A s \in DOMAIN config.staffTypes :
                config.staffTypes[s].id # <<"role", NumStr(ts)>>
          /\ config' = AddMemberConfig(config, ts, 40)
    /\ scheduleData' = generateSchedule(projects, config')
    /\ UNCHANGED <<projects, pc, assignVars, timingVars, optimized, firstRun, rounded, pending>>

NextGen == HandleCellUpdateHours \/ HandleCellUpdatePhase \/ AddMember

SpecGen == InitGen /\ [][NextGen]_vars

-----------------------------------------------------------------------------
(* Properties of generateSchedule                                          *)

StaffIdsOf(cfg) == StaffIdsOfConfig(cfg)

RowsFor(projectId, staffId) ==
    {r \in DOMAIN scheduleData.rows :
        /\ scheduleData.rows[r].projectId = projectId
        /\ scheduleData.rows[r].staffTypeId = staffId}

Abs(x) == IF x < 0 THEN 0 - x ELSE x

\* C1: every hour override keyed "<staffTypeId>-<k>" at a date of the timeline is
\* shown: a row (project, staff type, split k) exists and its cell at that date holds
\* the override's value with isOverride = true.
C1_OverridePrecedence ==
    ~scheduleData.threw =>
        \A p \in DOMAIN projects, id \in StaffIdsOf(config), k \in 1..MaxSplit,
           w \in DOMAIN scheduleData.headers :
            HasHourOverride(projects[p], StaffKey(id, k), scheduleData.headers[w]) =>
                \E r \in RowsFor(projects[p].id, id) :
                    /\ scheduleData.rows[r].staffIndex = k
                    /\ scheduleData.rows[r].cells[w].hours =
                          projects[p].overrides.staff[StaffKey(id, k)][scheduleData.headers[w]]
                    /\ scheduleData.rows[r].cells[w].isOverride = "true"

\* the slots of a phase held by a staff type
SlotsOf(phase, staffId) ==
    {a \in DOMAIN phase.staffAllocation : phase.staffAllocation[a].staffTypeId = staffId}

DistinctPhaseNames(project) ==
    \A i, j \in DOMAIN project.phasesConfig :
        project.phasesConfig[i].name = project.phasesConfig[j].name => i = j

TotalWeeks(project) ==
    SumSeq([k \in DOMAIN project.phasesConfig |-> Max(0, project.phasesConfig[k].maxWeeks)])

\* the project has no overrides and its phases lie wholly on the timeline
PlainOnTimeline(project) ==
    /\ project.overrides = NoOverrides
    /\ project.startWeekOffset >= 0
    /\ project.startWeekOffset + TotalWeeks(project) <= Len(scheduleData.headers)

\* first week (0-based) of phase k
PhaseStart(project, k) ==
    project.startWeekOffset +
    SumSeq([j \in 1..(k - 1) |-> Max(0, project.phasesConfig[j].maxWeeks)])

\* the hours the rows of (project, staff type) show over the weeks of phase k
PhaseCellSum(project, staffId, k) ==
    LET weeks == {w \in DOMAIN scheduleData.headers :
                     /\ w - 1 >= PhaseStart(project, k)
                     /\ w - 1 < PhaseStart(project, k) + project.phasesConfig[k].maxWeeks}
        rowSum(r) == SumSeq([w \in DOMAIN scheduleData.headers |->
                                IF w \in weeks THEN scheduleData.rows[r].cells[w].hours ELSE 0])
        rs == RowsFor(project.id, staffId)
    IN  IF rs = {} THEN 0 ELSE rowSum(CHOOSE r \in rs : TRUE)

\* | sum - budgetHours * percentBudget/100 * percentage/100 | * 10000
ConservationGap(project, staffId, k, a) ==
    Abs(PhaseCellSum(project, staffId, k) * 10000 -
        project.budgetHours * project.phasesConfig[k].percentBudget *
            project.phasesConfig[k].staffAllocation[a].percentage)

\* C5 as stated: for a project without overrides lying on the timeline, the cell
\* hours of a staff role over a phase differ from its allocation by at most 4.
C5_ConservationWithin4 ==
    ~scheduleData.threw =>
        \A p \in DOMAIN projects :
            PlainOnTimeline(projects[p]) =>
                \A k \in DOMAIN projects[p].phasesConfig, id \in StaffIdsOf(config) :
                    \A a \in SlotsOf(projects[p].phasesConfig[k], id) :
                        ConservationGap(projects[p], id, k, a) <= 4 * 10000

\* C5 amended: for a project without overrides whose phases have distinct names and
\* lie on the timeline, for every phase of maxWeeks >= 1 and every staff type of the
\* config holding one slot of it, the cell hours over the phase differ from the
\* allocation by less than 4 per week of the phase (less than 4 * maxWeeks).
C5_ConservationPerWeek ==
    ~scheduleData.threw =>
        \A p \in DOMAIN projects :
            (PlainOnTimeline(projects[p]) /\ DistinctPhaseNames(projects[p])) =>
                \A k \in DOMAIN projects[p].phasesConfig, id \in StaffIdsOf(config) :
                    LET ph == projects[p].phasesConfig[k]
                    IN  (ph.maxWeeks >= 1 /\ Cardinality(SlotsOf(ph, id)) = 1) =>
                            \A a \in SlotsOf(ph, id) :
                                ConservationGap(projects[p], id, k, a)
                                    < 4 * ph.maxWeeks * 10000

\* a phase of several weeks whose rounded cells sum to more than 4 hours away from
\* the allocation
C5_Witness ==
    /\ ~scheduleData.threw
    /\ \E p \in DOMAIN projects :
          /\ PlainOnTimeline(projects[p]) /\ DistinctPhaseNames(projects[p])
          /\ \E k \in DOMAIN projects[p].phasesConfig, id \in StaffIdsOf(config) :
                /\ projects[p].phasesConfig[k].maxWeeks >= 2
                /\ \E a \in SlotsOf(projects[p].phasesConfig[k], id) :
                      /\ projects[p].phasesConfig[k].staffAllocation[a].percentage > 0
                      /\ ConservationGap(projects[p], id, k, a) > 4 * 10000

\* the staff type is listed in the project's phases, always at 0%
ListedAtZero(project, staffId) ==
    /\ \E k \in DOMAIN project.phasesConfig : SlotsOf(project.phasesConfig[k], staffId) # {}
    /\ \A k \in DOMAIN project.phasesConfig :
          \A a \in SlotsOf(project.phasesConfig[k], staffId) :
              project.phasesConfig[k].staffAllocation[a].percentage = 0

-----------------------------------------------------------------------------
(* optimizeProjectTiming as a loop                                         *)

IterationBudget == Min(iterations, MaxIterations)

\* Accepts with the comparison inverted
Accepts_Inverted(newCost, cost) == newCost > cost

\* if (newCost < bestCost)
Accepts(newCost, cost) == newCost < cost

WithOffset(projs, idx, offset) ==
    [projs EXCEPT ![idx] = [@ EXCEPT !.startWeekOffset = offset]]

\* lines 216-259: the copy, the initial cost, and the early return when every
\* project is locked
BeginTiming ==
    /\ pc = "timingStart"
    /\ IF UnlockedIndices(currentProjects) = {}
       THEN /\ optimized' = currentProjects
            /\ pc' = "timed"
            /\ UNCHANGED <<bestProjects, bestCost>>
       ELSE /\ bestProjects' = currentProjects
            /\ bestCost' = getCost(currentProjects, config)
            /\ pc' = "timingLoop"
            /\ UNCHANGED optimized
    /\ iter' = 0
    /\ UNCHANGED <<config, projects, scheduleData, assignVars, currentProjects,
                   firstRun, rounded, pending>>

\* Iterate on a list that is the argument itself, not a copy of it
Iterate_NoCopy ==
    /\ pc = "timingLoop"
    /\ iter < IterationBudget
    /\ \E idx \in UnlockedIndices(bestProjects) :
       \E newOffset \in 0..MaxStart(bestProjects[idx]) :
          IF /\ newOffset # bestProjects[idx].startWeekOffset
             /\ Accepts(getCost(WithOffset(bestProjects, idx, newOffset), config), bestCost)
          THEN /\ bestProjects' = WithOffset(bestProjects, idx, newOffset)
               /\ bestCost' = getCost(WithOffset(bestProjects, idx, newOffset), config)
          ELSE UNCHANGED <<bestProjects, bestCost>>
    /\ currentProjects' = bestProjects'
    /\ iter' = iter + 1
    /\ UNCHANGED <<config, projects, scheduleData, pc, assignVars, optimized, firstRun,
                   rounded, pending>>

\* Iterate that keeps a move without recording its cost
Iterate_StaleCost ==
    /\ pc = "timingLoop"
    /\ iter < IterationBudget
    /\ \E idx \in UnlockedIndices(bestProjects) :
       \E newOffset \in 0..MaxStart(bestProjects[idx]) :
          IF /\ newOffset # bestProjects[idx].startWeekOffset
             /\ Accepts(getCost(WithOffset(bestProjects, idx, newOffset), config), bestCost)
          THEN bestProjects' = WithOffset(bestProjects, idx, newOffset)
          ELSE UNCHANGED bestProjects
    /\ iter' = iter + 1
    /\ UNCHANGED <<config, projects, scheduleData, pc, assignVars, currentProjects,
                   bestCost, optimized, firstRun, rounded, pending>>

\* one iteration of the loop (lines 261-277); Math.random() picks idx and newOffset
Iterate ==
    /\ pc = "timingLoop"
    /\ iter < IterationBudget
    /\ \E idx \in UnlockedIndices(bestProjects) :
       \E newOffset \in 0..MaxStart(bestProjects[idx]) :
          IF newOffset = bestProjects[idx].startWeekOffset
          THEN UNCHANGED <<bestProjects, bestCost>>
          ELSE LET newCost == getCost(WithOffset(bestProjects, idx, newOffset), config)
               IN  IF Accepts(newCost, bestCost)
                   THEN /\ bestProjects' = WithOffset(bestProjects, idx, newOffset)
                        /\ bestCost' = newCost
                   ELSE UNCHANGED <<bestProjects, bestCost>>
    /\ iter' = iter + 1
    /\ UNCHANGED <<config, projects, scheduleData, pc, assignVars, currentProjects,
                   optimized, firstRun, rounded, pending>>

\* the defensive pass and the return (lines 279-288)
EndTiming ==
    /\ pc = "timingLoop"
    /\ iter = IterationBudget
    /\ optimized' = ClampOffsets(bestProjects)
    /\ pc' = "timed"
    /\ UNCHANGED <<config, projects, scheduleData, assignVars, timingVars,
                   firstRun, rounded, pending>>

\* inputs of the optimizer: one or two projects of one phase each; the long
\* durations keep the feasible offsets few
TimingProject(id, dur, off, locked, staffId) ==
    Project(id, 400, off, locked, <<Phase("Planning", 100, dur, <<Slot(staffId, 100)>>)>>,
            NoOverrides)

TimingFirstProjects ==
    {TimingProject("1", dur, off, locked, <<"pm">>) :
        dur \in {50, 51, 53, 60}, off \in {0, 2, 60}, locked \in BOOLEAN}

TimingSecondProjects ==
    {TimingProject("2", 1, 0, TRUE, <<"pm">>),
     TimingProject("2", 51, 1, FALSE, <<"lead">>),
     Project("2", 400, 0, FALSE,
             <<Phase("Pre-Planning", 50, 0, <<Slot(<<"pm">>, 100)>>),
               Phase("Planning", 50, 50, <<Slot(<<"pm">>, 50), Slot(<<"lead">>, 50)>>)>>,
             NoOverrides)}

TimingInputs ==
    {<<p>> : p \in TimingFirstProjects} \cup
    {<<p, q>> : p \in TimingFirstProjects, q \in TimingSecondProjects}

InitTiming ==
    /\ config = GenConfig(2026, <<PM, LEAD>>)
    /\ projects \in TimingInputs
    /\ currentProjects = projects
    /\ bestProjects = None /\ bestCost = 0 /\ iter = 0
    /\ scheduleData = None
    /\ pc = "timingStart"
    /\ AssignIdle /\ ResultIdle /\ rounded = NoRounding /\ pending = None

NextTiming == BeginTiming \/ Iterate \/ EndTiming

SpecTiming == InitTiming /\ [][NextTiming]_vars

-----------------------------------------------------------------------------
(* Properties of optimizeProjectTiming                                     *)

\* C3 as stated: every unlocked project of the returned list satisfies
\* startWeekOffset + totalDuration <= 53, whatever the phases' maxWeeks.
C3_Feasible ==
    pc = "timed" =>
        \A idx \in UnlockedIndices(optimized) :
            optimized[idx].startWeekOffset + getProjectDuration(optimized[idx]) <= WEEKS

\* C3 amended: every unlocked project of the returned list whose totalDuration is at
\* most 53 satisfies startWeekOffset + totalDuration <= 53.
C3_FeasibleWhenItFits ==
    pc = "timed" =>
        \A idx \in UnlockedIndices(optimized) :
            getProjectDuration(optimized[idx]) <= WEEKS =>
                optimized[idx].startWeekOffset + getProjectDuration(optimized[idx]) <= WEEKS

\* an unlocked project that started past its feasible maximum and fits the year
C3_Witness ==
    /\ pc = "timed"
    /\ \E idx \in UnlockedIndices(optimized) :
          /\ getProjectDuration(optimized[idx]) <= WEEKS
          /\ currentProjects[idx].startWeekOffset > MaxStart(currentProjects[idx])
          /\ optimized[idx].startWeekOffset = MaxStart(currentProjects[idx])

\* C4 as stated: the cost of the returned list is at most the cost of the input
\* list, also when an unlocked project starts above its feasible maximum.
C4_MonotonicCost ==
    pc = "timed" => getCost(optimized, config) <= getCost(currentProjects, config)

StartsFeasible(projs) ==
    \A idx \in UnlockedIndices(projs) : projs[idx].startWeekOffset <= MaxStart(projs[idx])

\* C4 amended: when no unlocked project of the input starts above its feasible
\* maximum, the cost of the returned list is at most the cost of the input list.
C4_MonotonicCostWhenFeasible ==
    (pc = "timed" /\ StartsFeasible(currentProjects)) =>
        getCost(optimized, config) <= getCost(currentProjects, config)

\* a run from feasible offsets that lowered the cost
C4_Witness ==
    /\ pc = "timed"
    /\ StartsFeasible(currentProjects)
    /\ UnlockedIndices(currentProjects) # {}
    /\ getCost(optimized, config) < getCost(currentProjects, config)

-----------------------------------------------------------------------------
(* assignStaffToPlaceholders, step by step                                 *)

\* every Task of the list, in project order
AllTasks(projs) == Flatten([p \in DOMAIN projs |-> ProjectTasks(projs[p])])

\* the staffTypeId of the slot a Task stands for
SlotStaff(projs, task) ==
    projs[FindProject(projs, task.projectId)].phasesConfig[task.phaseIndex]
        .staffAllocation[task.allocIndex].staffTypeId

\* `Could not fill placeholder for ${task.projectName}.`
Warning(task) == <<"Could not fill placeholder for", task.projectName>>

\* lines 59-116: the deep copy, the initial loads, the Task list and its sort
BeginAssign ==
    /\ pc = "assignStart"
    /\ workingProjects' = projects
    /\ warnings' = <<>>
    /\ weeklyLoads' = calculateWeeklyAggregates(projects, config)
    /\ tasks' = SortTasks(AllTasks(projects))
    /\ taskIndex' = 1
    /\ pc' = "assignLoop"
    /\ UNCHANGED <<config, projects, scheduleData, timingVars, optimized, firstRun, rounded, pending>>

\* one pass of tasks.forEach in which bestCandidate is set (lines 186-200)
AssignBind ==
    /\ pc = "assignLoop"
    /\ taskIndex <= Len(tasks)
    /\ LET task  == tasks[taskIndex]
           cands == Candidates(workingProjects, config, task)
           best  == BestCandidate(weeklyLoads, cands, task)
       IN  /\ best # 0
           /\ workingProjects' = BindSlot(workingProjects, task, cands[best].id)
           /\ weeklyLoads' = AddLoad(weeklyLoads, task, cands[best].id)
    /\ taskIndex' = taskIndex + 1
    /\ UNCHANGED <<config, projects, scheduleData, pc, tasks, warnings, timingVars,
                   optimized, firstRun, rounded, pending>>

\* one pass of tasks.forEach in which bestCandidate stays null (lines 201-203)
AssignWarn ==
    /\ pc = "assignLoop"
    /\ taskIndex <= Len(tasks)
    /\ LET task  == tasks[taskIndex]
           cands == Candidates(workingProjects, config, task)
       IN  /\ BestCandidate(weeklyLoads, cands, task) = 0
           /\ warnings' = Append(warnings, Warning(task))
    /\ taskIndex' = taskIndex + 1
    /\ UNCHANGED <<config, projects, scheduleData, pc, workingProjects, tasks, weeklyLoads,
                   timingVars, optimized, firstRun, rounded, pending>>

\* return { projects: workingProjects, warnings }
EndAssign ==
    /\ pc = "assignLoop"
    /\ taskIndex > Len(tasks)
    /\ pc' = "assigned"
    /\ UNCHANGED <<config, projects, scheduleData, assignVars, timingVars,
                   optimized, firstRun, rounded, pending>>

\* inputs of the assigner: one or two projects, placeholder slots beside concrete
\* ones, slots at 0%, a phase of no duration, a project at the end of the timeline
AssignConfigs ==
    {GenConfig(2026, st) : st \in {<<PM, PLACEHOLDER_STAFF>>,
                                   <<PM, LEAD, PLACEHOLDER_STAFF>>,
                                   <<PM, LEAD, STAFF, PLACEHOLDER_STAFF>>,
                                   <<[LEAD EXCEPT !.maxHoursPerWeek = 8], STAFF,
                                     PLACEHOLDER_STAFF>>}}

AssignFirstSlots ==
    {<<Slot(PLACEHOLDER, 100)>>,
     <<Slot(<<"pm">>, 50), Slot(PLACEHOLDER, 50)>>,
     <<Slot(PLACEHOLDER, 60), Slot(PLACEHOLDER, 40)>>,
     <<Slot(<<"pm">>, 40), Slot(<<"lead">>, 60), Slot(PLACEHOLDER, 0)>>}

AssignSecondPhases ==
    {<<>>} \cup
    {<<Phase("Fieldwork", 50, mw, sl)>> :
        mw \in {0, 3},
        sl \in {<<Slot(PLACEHOLDER, 100)>>,
                <<Slot(<<"lead">>, 0), Slot(PLACEHOLDER, 100)>>,
                <<Slot(<<"pm">>, 100)>>}}

AssignFirstProjects ==
    {Project("1", budget, off, FALSE, <<Phase("Planning", 50, 2, sl)>> \o second, NoOverrides) :
        budget \in {80, 400}, off \in {0, 51}, sl \in AssignFirstSlots,
        second \in AssignSecondPhases}

AssignSecondProject ==
    [Project("2", 100, 1, FALSE,
             <<Phase("Planning", 100, 2, <<Slot(PLACEHOLDER, 100)>>)>>, NoOverrides)
        EXCEPT !.team = "Finance", !.requiredSkills = <<>>]

\* a project whose first phase has a negative duration
AssignNegativeProjects ==
    {Project("1", budget, off, FALSE,
             <<Phase("Pre-Planning", 10, -1, <<Slot(<<"pm">>, 100)>>),
               Phase("Planning", 90, 2, <<Slot(PLACEHOLDER, 100)>>)>>, NoOverrides) :
        budget \in {80, 400}, off \in {0, 51}}

AssignInputs ==
    {<<p>> : p \in AssignFirstProjects \cup AssignNegativeProjects} \cup
    {<<p, AssignSecondProject>> : p \in AssignFirstProjects \cup AssignNegativeProjects}

InitAssign ==
    /\ config \in AssignConfigs
    /\ projects \in AssignInputs
    /\ scheduleData = None
    /\ pc = "assignStart"
    /\ AssignIdle /\ TimingIdle /\ ResultIdle /\ rounded = NoRounding /\ pending = None

NextAssign == BeginAssign \/ AssignBind \/ AssignWarn \/ EndAssign

SpecAssign == InitAssign /\ [][NextAssign]_vars

-----------------------------------------------------------------------------
(* Properties of the assigner                                              *)

\* the slots (project, phase, slot) of a project list
AllSlots(projs) ==
    UNION {UNION {{<<p, k, a>> : a \in DOMAIN projs[p].phasesConfig[k].staffAllocation} :
                  k \in DOMAIN projs[p].phasesConfig} : p \in DOMAIN projs}

StaffAt(projs, x) == projs[x[1]].phasesConfig[x[2]].staffAllocation[x[3]].staffTypeId

\* the slots the run has bound: placeholder in the input, concrete now
BoundSlots ==
    {x \in AllSlots(projects) :
        StaffAt(projects, x) = PLACEHOLDER /\ StaffAt(workingProjects, x) # PLACEHOLDER}

\* C2 (exclusivity): after assignStaffToPlaceholders returns, a concrete staff id
\* that the run bound to a placeholder slot is the staffTypeId of no other slot of
\* the same project, in any phase.
C2_Exclusivity ==
    pc = "assigned" =>
        \A x \in BoundSlots : \A y \in AllSlots(workingProjects) :
            (y[1] = x[1] /\ y # x) => StaffAt(workingProjects, y) # StaffAt(workingProjects, x)

\* a run that bound two placeholder slots of one project
C2_Witness ==
    /\ pc = "assigned"
    /\ \E x, y \in BoundSlots : x # y /\ x[1] = y[1]

\* the Tasks whose slot is still the placeholder
UnresolvedTasks == {n \in DOMAIN tasks : SlotStaff(workingProjects, tasks[n]) = PLACEHOLDER}

\* what one pass of tasks.forEach does, against the candidate set of its Task
TaskOutcome ==
    LET task  == tasks[taskIndex]
        cands == Candidates(workingProjects, config, task)
    IN  IF cands = <<>>
        THEN /\ warnings' = Append(warnings, Warning(task))
             /\ SlotStaff(workingProjects', task) = PLACEHOLDER
        ELSE /\ warnings' = warnings
             /\ SlotStaff(workingProjects', task) # PLACEHOLDER
             /\ \E c \in DOMAIN cands : SlotStaff(workingProjects', task) = cands[c].id

\* C8 (unfillable slots): a Task with no candidate appends exactly one warning and
\* leaves its slot the placeholder; a Task with a candidate is bound to one of its
\* candidates and appends no warning; every Task of the list gets its pass; and
\* when the run returns the number of warnings is the number of Tasks left
\* unresolved.
C8_WarningPerUnfillableTask ==
    /\ [][(pc = "assignLoop" /\ taskIndex' = taskIndex + 1) => TaskOutcome]_vars
    /\ []((pc = "assignLoop" /\ taskIndex <= Len(tasks)) => ENABLED (AssignBind \/ AssignWarn))
    /\ [](pc = "assigned" => /\ taskIndex = Len(tasks) + 1
                             /\ Len(warnings) = Cardinality(UnresolvedTasks))

\* Scenario C: a run that ends with two warnings, and one that bound a slot
C8_Witness ==
    /\ pc = "assigned"
    /\ Len(warnings) = 2
    /\ Cardinality(UnresolvedTasks) = 2

-----------------------------------------------------------------------------
(* The three rounding sites                                                *)

\* one project of one phase whose first slot is a concrete role and whose second
\* slot is a placeholder of the same percentage; splits > 1 comes from an hour
\* override of a later week under the key of a higher split
RoundProject(budget, pb, pct, mw, splits) ==
    Project("1", budget, 0, FALSE,
            <<Phase("Planning", pb, mw, <<Slot(<<"pm">>, pct), Slot(PLACEHOLDER, pct)>>)>>,
            [phase |-> EmptyMap,
             staff |-> IF splits = 1 THEN EmptyMap
                       ELSE [k \in {StaffKey(<<"pm">>, splits)} |->
                                [d \in {Headers(2026)[2]} |-> 0]]])

RoundInputs ==
    {<<RoundProject(budget, pb, pct, mw, splits)>> :
        budget \in {0, 1, 10, 40, 100, 333, 1000}, pb \in {5, 50, 100},
        pct \in {0, 1, 50, 100}, mw \in {1, 3, 52}, splits \in 1..MaxSplit}

\* the rate of the first slot before rounding, staffHoursTotal / duration
RawWeekly(project) ==
    LET ph == project.phasesConfig[1]
    IN  <<project.budgetHours * ph.percentBudget * ph.staffAllocation[1].percentage,
          100 * 100 * ph.maxWeeks>>

\* calculateWeeklyAggregates rounds the rate of the concrete slot (lines 37-39)
RoundInAggregator ==
    /\ pc = "roundStart"
    /\ rounded' = [site  |-> "calculateWeeklyAggregates",
                   raw   |-> RawWeekly(projects[1]),
                   value |-> calculateWeeklyAggregates(projects, config)[<<"pm">>][0]]
    /\ pc' = "rounded"
    /\ UNCHANGED <<config, projects, scheduleData, assignVars, timingVars, optimized, firstRun,
                   pending>>

\* assignStaffToPlaceholders rounds the rate of the placeholder slot when it makes
\* the slot a Task (lines 91-95)
RoundInAssigner ==
    /\ pc = "roundStart"
    /\ ProjectTasks(projects[1]) # <<>>
    /\ rounded' = [site  |-> "assignStaffToPlaceholders",
                   raw   |-> RawWeekly(projects[1]),
                   value |-> ProjectTasks(projects[1])[1].hoursPerWeek]
    /\ pc' = "rounded"
    /\ UNCHANGED <<config, projects, scheduleData, assignVars, timingVars, optimized, firstRun,
                   pending>>

\* generateSchedule rounds the rate per split in the first cell of the first row
\* of the concrete role (lines 436-442)
RoundInGenerator ==
    /\ pc = "roundStart"
    /\ LET project == projects[1]
           headers == Headers(config.year)
           weeklyPhases == WeeklyPhases(project, headers)
           numSplits == NumSplits(project, <<"pm">>, weeklyPhases)
           raw == RawWeekly(project)
       IN  rounded' = [site  |-> "generateSchedule",
                       raw   |-> <<raw[1], raw[2] * numSplits>>,
                       value |-> MakeCell(project, <<"pm">>, numSplits,
                                          StaffKey(<<"pm">>, 1), headers[1],
                                          weeklyPhases[1]).hours]
    /\ pc' = "rounded"
    /\ UNCHANGED <<config, projects, scheduleData, assignVars, timingVars, optimized, firstRun,
                   pending>>

InitRound ==
    /\ config = GenConfig(2026, <<PM, LEAD, PLACEHOLDER_STAFF>>)
    /\ projects \in RoundInputs
    /\ scheduleData = None
    /\ pc = "roundStart"
    /\ AssignIdle /\ TimingIdle /\ ResultIdle /\ rounded = NoRounding /\ pending = None

NextRound == RoundInAggregator \/ RoundInAssigner \/ RoundInGenerator

SpecRound == InitRound /\ [][NextRound]_vars

\* C6 (canonical rounding): at each of the three sites a strictly positive raw
\* weekly rate is rounded to a strictly positive multiple of 4, which is a nearest
\* multiple of 4 unless that is 0, and then it is 4.
C6_CanonicalRounding ==
    (rounded.site # "none" /\ rounded.raw[1] > 0) =>
        /\ rounded.value % GRAIN = 0
        /\ rounded.value > 0
        /\ \/ 2 * Abs(rounded.value * rounded.raw[2] - rounded.raw[1])
                 <= GRAIN * rounded.raw[2]
           \/ (rounded.value = GRAIN /\ 2 * rounded.raw[1] < GRAIN * rounded.raw[2])

\* a positive rate below 2 has been promoted to 4 at a site
C6_Witness ==
    /\ rounded.site # "none"
    /\ rounded.raw[1] > 0
    /\ 2 * rounded.raw[1] < GRAIN * rounded.raw[2]
    /\ rounded.value = GRAIN

-----------------------------------------------------------------------------
(* optimizeSchedule, run twice on the same input                           *)

\* const finalProjects = optimizeProjectTiming(staffedProjects, config)
HandOff ==
    /\ pc = "assigned"
    /\ currentProjects' = workingProjects
    /\ pc' = "timingStart"
    /\ UNCHANGED <<config, projects, scheduleData, assignVars, bestProjects, bestCost, iter,
                   optimized, firstRun, rounded, pending>>

\* return { optimizedProjects: finalProjects, warnings }
Returned == [optimizedProjects |-> optimized, warnings |-> warnings]

\* the first call has returned; the second call starts on the same (projects, config)
Rerun ==
    /\ pc = "timed"
    /\ firstRun = None
    /\ firstRun' = Returned
    /\ optimized' = None
    /\ workingProjects' = None /\ tasks' = None /\ taskIndex' = 0
    /\ weeklyLoads' = None /\ warnings' = None
    /\ currentProjects' = None /\ bestProjects' = None /\ bestCost' = 0 /\ iter' = 0
    /\ pc' = "assignStart"
    /\ UNCHANGED <<config, projects, scheduleData, rounded, pending>>

OptimizeFirstProjects ==
    {Project("1", 400, off, locked, <<Phase("Planning", 100, dur, sl)>>, NoOverrides) :
        dur \in {50, 51}, off \in {0, 2}, locked \in BOOLEAN,
        sl \in {<<Slot(PLACEHOLDER, 100)>>, <<Slot(<<"pm">>, 50), Slot(PLACEHOLDER, 50)>>}}

OptimizeSecondProjects ==
    {TimingProject("2", 1, 0, TRUE, <<"pm">>),
     TimingProject("2", 51, 0, FALSE, PLACEHOLDER)}

OptimizeInputs ==
    {<<p>> : p \in OptimizeFirstProjects} \cup
    {<<p, q>> : p \in OptimizeFirstProjects, q \in OptimizeSecondProjects}

InitOptimize ==
    /\ config \in {GenConfig(2026, <<PM, PLACEHOLDER_STAFF>>),
                   GenConfig(2026, <<PM, LEAD, PLACEHOLDER_STAFF>>)}
    /\ projects \in OptimizeInputs
    /\ scheduleData = None
    /\ pc = "assignStart"
    /\ AssignIdle /\ TimingIdle /\ ResultIdle /\ rounded = NoRounding /\ pending = None

NextOptimize ==
    \/ BeginAssign \/ AssignBind \/ AssignWarn \/ EndAssign
    \/ HandOff
    \/ BeginTiming \/ Iterate \/ EndTiming
    \/ Rerun

SpecOptimize == InitOptimize /\ [][NextOptimize]_vars

\* both calls have returned
BothReturned == pc = "timed" /\ firstRun # None

\* C9 (determinism of the optimize pipeline): two runs of optimizeSchedule on the
\* same (projects, config) return the same optimized project list and the same
\* warnings list.
C9_SameResult == BothReturned => Returned = firstRun

\* a project list with the start offsets of the unlocked projects left out
ButUnlockedOffsets(projs) ==
    [p \in DOMAIN projs |->
        IF projs[p].locked THEN projs[p] ELSE [projs[p] EXCEPT !.startWeekOffset = 0]]

\* C9, amended: two runs of optimizeSchedule on the same (projects, config) return
\* the same warnings list and project lists that are equal in everything (staff
\* bindings included) except the startWeekOffset of the unlocked projects.
C9_SameButUnlockedOffsets ==
    BothReturned =>
        /\ warnings = firstRun.warnings
        /\ ButUnlockedOffsets(optimized) = ButUnlockedOffsets(firstRun.optimizedProjects)

\* two runs that bound a placeholder slot and returned different start offsets
C9_Witness ==
    /\ BothReturned
    /\ optimized # firstRun.optimizedProjects
    /\ BoundSlots # {}

-----------------------------------------------------------------------------
(* Frame of optimizeProjectTiming                                          *)

\* C11 (frame of the timing optimizer): the returned list has the projects of the
\* input in the same order and differs from it at most in the startWeekOffset of
\* unlocked projects; when every project is locked it is the input.
C11_TimingFrame ==
    pc = "timed" =>
        /\ DOMAIN optimized = DOMAIN currentProjects
        /\ \A idx \in DOMAIN optimized :
              /\ [optimized[idx] EXCEPT !.startWeekOffset = 0]
                    = [currentProjects[idx] EXCEPT !.startWeekOffset = 0]
              /\ currentProjects[idx].locked =>
                    optimized[idx].startWeekOffset = currentProjects[idx].startWeekOffset
        /\ UnlockedIndices(currentProjects) = {} => optimized = currentProjects

\* a run that moved an unlocked project beside a locked one that starts above its
\* feasible maximum
C11_Witness ==
    /\ pc = "timed"
    /\ \E idx \in DOMAIN optimized :
          /\ ~currentProjects[idx].locked
          /\ optimized[idx].startWeekOffset # currentProjects[idx].startWeekOffset
    /\ \E idx \in DOMAIN optimized :
          /\ currentProjects[idx].locked
          /\ currentProjects[idx].startWeekOffset > MaxStart(currentProjects[idx])

-----------------------------------------------------------------------------
(* Purity of the engine                                                    *)

\* C12 (purity): no step of assignStaffToPlaceholders, optimizeProjectTiming or
\* optimizeSchedule, nor the calculateWeeklyAggregates calls they make, changes the
\* project list or the config the call was given: optimizeSchedule's arguments
\* stay as they were, and so does the list handed to optimizeProjectTiming while
\* it runs.
C12_Purity ==
    [][/\ projects' = projects
       /\ config' = config
       /\ (pc \in {"timingStart", "timingLoop"} => currentProjects' = currentProjects)]_vars

\* a call that bound a placeholder slot and moved a project, with its input intact
C12_Witness ==
    /\ pc = "timed"
    /\ BoundSlots # {}
    /\ \E idx \in DOMAIN optimized :
          optimized[idx].startWeekOffset # projects[idx].startWeekOffset
    /\ \E x \in BoundSlots : StaffAt(projects, x) = PLACEHOLDER

-----------------------------------------------------------------------------
(* GlobalConfig edits and project snapshots                                *)

\* ConfigurationPanel.updatePhase(phaseIndex, field, value)
UpdatePhaseConfig(cfg, phaseIndex, field, value) ==
    [cfg EXCEPT !.phases[phaseIndex][field] = value]

\* ConfigurationPanel.updateStaffAllocation(phaseIndex, staffTypeId, percentage):
\* the first slot of that staff type, if there is one
UpdateStaffAllocationConfig(cfg, phaseIndex, staffTypeId, percentage) ==
    LET al    == cfg.phases[phaseIndex].staffAllocation
        found == {a \in DOMAIN al : al[a].staffTypeId = staffTypeId}
    IN  IF found = {} THEN cfg
        ELSE LET allocationIndex == CHOOSE a \in found : \A b \in found : a <= b
             IN  [cfg EXCEPT !.phases[phaseIndex].staffAllocation[allocationIndex]
                                  .percentage = percentage]

\* TeamMemberList.removeMember(id)
RemoveMemberConfig(cfg, id) ==
    [cfg EXCEPT
        !.staffTypes = SelectSeq(@, LAMBDA s : s.id # id),
        !.phases = [k \in DOMAIN @ |->
                       [@[k] EXCEPT !.staffAllocation =
                           SelectSeq(@, LAMBDA sa : sa.staffTypeId # id)]]]

\* ProjectList.addProject: phasesConfig is JSON.parse(JSON.stringify(config.phases));
\* the project has no overrides yet, which reads as empty override maps
AddProjectTo(projs, cfg, newId, budget, offset) ==
    Append(projs, [id |-> newId, budgetHours |-> budget, startWeekOffset |-> offset,
                   locked |-> FALSE, phasesConfig |-> cfg.phases,
                   overrides |-> NoOverrides])

\* the application starts with a project that snapshots the default phases
InitConfig ==
    /\ config = GenConfig(2026, <<PM, LEAD>>)
    /\ projects = <<Project("1", 400, 0, FALSE, config.phases, NoOverrides)>>
    /\ scheduleData = generateSchedule(projects, config)
    /\ pc = "ready"
    /\ AssignIdle /\ TimingIdle /\ ResultIdle /\ rounded = NoRounding /\ pending = None

AddProject ==
    /\ pc = "ready"
    /\ Len(projects) < MaxProjects
    /\ projects' = AddProjectTo(projects, config, NumStr(Len(projects) + 1), 400, 0)
    /\ scheduleData' = generateSchedule(projects', config)
    /\ UNCHANGED <<config, pc, assignVars, timingVars, optimized, firstRun, rounded, pending>>

UpdatePhase ==
    /\ pc = "ready"
    /\ \E k \in DOMAIN config.phases :
       \E edit \in {<<"percentBudget", 50>>, <<"maxWeeks", 2>>} :
          config' = UpdatePhaseConfig(config, k, edit[1], edit[2])
    /\ scheduleData' = generateSchedule(projects, config')
    /\ UNCHANGED <<projects, pc, assignVars, timingVars, optimized, firstRun, rounded, pending>>

UpdateStaffAllocation ==
    /\ pc = "ready"
    /\ \E k \in DOMAIN config.phases :
          config' = UpdateStaffAllocationConfig(config, k, <<"pm">>, 40)
    /\ scheduleData' = generateSchedule(projects, config')
    /\ UNCHANGED <<projects, pc, assignVars, timingVars, optimized, firstRun, rounded, pending>>

RemoveMember ==
    /\ pc = "ready"
    /\ \E id \in StaffIdsOfConfig(config) :
          config' = RemoveMemberConfig(config, id)
    /\ scheduleData' = generateSchedule(projects, config')
    /\ UNCHANGED <<projects, pc, assignVars, timingVars, optimized, firstRun, rounded, pending>>

NextConfig == AddProject \/ UpdatePhase \/ UpdateStaffAllocation \/ AddMember \/ RemoveMember

SpecConfig == InitConfig /\ [][NextConfig]_vars

\* the config with its phases taken away
WithoutPhases(cfg) == [cfg EXCEPT !.phases = <<>>]

\* C13 (snapshot isolation): no step changes the phasesConfig of a project that
\* exists, whatever is edited in the config, and the schedule and the weekly loads
\* of the projects are what they would be with no config.phases at all.
C13_SnapshotIsolation ==
    /\ [][\A p \in DOMAIN projects :
             /\ p \in DOMAIN projects'
             /\ projects'[p].phasesConfig = projects[p].phasesConfig]_vars
    /\ [](/\ scheduleData = generateSchedule(projects, WithoutPhases(config))
          /\ calculateWeeklyAggregates(projects, config)
                = calculateWeeklyAggregates(projects, WithoutPhases(config)))

\* a project whose snapshot differs from the phases of the edited config and
\* that has hours in the schedule
C13_Witness ==
    /\ pc = "ready"
    /\ \E p \in DOMAIN projects :
          /\ projects[p].phasesConfig # config.phases
          /\ \E r \in DOMAIN scheduleData.rows :
                /\ scheduleData.rows[r].projectId = projects[p].id
                /\ scheduleData.rows[r].totalHours > 0
    /\ Len(projects) = MaxProjects
    /\ projects[1].phasesConfig # projects[2].phasesConfig

-----------------------------------------------------------------------------
(* App.handleOptimize                                                      *)

\* generateSchedule called with a value that is not an array: projects.forEach
\* is not a function, a TypeError leaves the call
generateScheduleOfObject == [threw |-> TRUE, headers |-> <<>>, rows |-> <<>>]

\* setIsOptimizing(true)
isOptimizing == pc \notin {"ready", "optimizeDone"}

InitApp ==
    /\ config \in {GenConfig(2026, <<PM, PLACEHOLDER_STAFF>>),
                   GenConfig(2026, <<PM, LEAD, PLACEHOLDER_STAFF>>)}
    /\ projects \in OptimizeInputs
    /\ scheduleData = generateSchedule(projects, config)
    /\ pc = "ready"
    /\ AssignIdle /\ TimingIdle /\ ResultIdle /\ rounded = NoRounding /\ pending = None

\* handleOptimize: setIsOptimizing(true); setTimeout(() => { .. projects .. }, 50):
\* the callback closes over the projects of the render that made it
HandleOptimize ==
    /\ pc = "ready"
    /\ pending' = projects
    /\ pc' = "optimizeRequested"
    /\ UNCHANGED <<config, projects, scheduleData, assignVars, timingVars, optimized,
                   firstRun, rounded>>

\* handleCellUpdate(.., 'hours') on the first rendered row of the first project,
\* before a request or while the timer is pending (the callback itself runs to its
\* end without yielding); explored for a project that has no override yet
EditHours ==
    /\ pc \in {"ready", "optimizeRequested"}
    /\ ~scheduleData.threw
    /\ projects[1].overrides = NoOverrides
    /\ \E r \in DOMAIN scheduleData.rows, v \in EditValues :
          LET row == scheduleData.rows[r]
          IN  /\ row.projectId = projects[1].id
              /\ \A q \in 1..(r - 1) : scheduleData.rows[q].projectId # projects[1].id
              /\ projects' = CellUpdateHours(projects, row.projectId, row.staffTypeId,
                                              row.staffIndex, scheduleData.headers[1], v)
    /\ scheduleData' = generateSchedule(projects', config)
    /\ UNCHANGED <<config, pc, assignVars, timingVars, optimized, firstRun, rounded, pending>>

\* handleCellUpdate(.., 'phase') on the first project, under the same conditions
EditPhase ==
    /\ pc \in {"ready", "optimizeRequested"}
    /\ ~scheduleData.threw
    /\ projects[1].overrides = NoOverrides
    /\ projects' = CellUpdatePhase(projects, projects[1].id, scheduleData.headers[2],
                                   projects[1].phasesConfig[1].name)
    /\ scheduleData' = generateSchedule(projects', config)
    /\ UNCHANGED <<config, pc, assignVars, timingVars, optimized, firstRun, rounded, pending>>

\* the timer fires: the callback calls optimizeSchedule on the projects it closed
\* over, which starts with assignStaffToPlaceholders (lines 59-116)
TimerFires ==
    /\ pc = "optimizeRequested"
    /\ workingProjects' = pending
    /\ warnings' = <<>>
    /\ weeklyLoads' = calculateWeeklyAggregates(pending, config)
    /\ tasks' = SortTasks(AllTasks(pending))
    /\ taskIndex' = 1
    /\ pc' = "assignLoop"
    /\ UNCHANGED <<config, projects, scheduleData, timingVars, optimized, firstRun, rounded,
                   pending>>

\* const optimizedProjects = optimizeSchedule(projects, config);
\* setProjects(optimizedProjects); setIsOptimizing(false);
\* the state becomes the object optimizeSchedule returned, and useMemo calls
\* generateSchedule on it
SetProjects ==
    /\ pc = "timed"
    /\ projects' = Returned
    /\ scheduleData' = generateScheduleOfObject
    /\ pc' = "optimizeDone"
    /\ UNCHANGED <<config, assignVars, timingVars, optimized, firstRun, rounded, pending>>

NextApp ==
    \/ HandleOptimize \/ EditHours \/ EditPhase \/ TimerFires
    \/ AssignBind \/ AssignWarn \/ EndAssign
    \/ HandOff
    \/ BeginTiming \/ Iterate \/ EndTiming
    \/ SetProjects

SpecApp == InitApp /\ [][NextApp]_vars

\* C14 (optimize action): after the action completes the schedule can be
\* recomputed, the application's project collection is the list the timing
\* optimizer returned for the assigner's output, with the ids of the projects in
\* their order, and isOptimizing is false.
C14_OptimizeAction ==
    pc = "optimizeDone" =>
        /\ ~scheduleData.threw
        /\ ~isOptimizing
        /\ projects = optimized
        /\ [p \in DOMAIN projects |-> projects[p].id]
              = [p \in DOMAIN workingProjects |-> workingProjects[p].id]

-----------------------------------------------------------------------------
(* The aggregator against the rendered schedule                            *)

NoOverridesIn(projs) == \A p \in DOMAIN projs : projs[p].overrides = NoOverrides

\* the hours the rendered rows hold for a staff type in timeline week w (1-based)
RenderedLoad(data, staffId, w) ==
    SumSeq([r \in DOMAIN data.rows |->
               IF data.rows[r].staffTypeId = staffId THEN data.rows[r].cells[w].hours ELSE 0])

\* C15 (the cost oracle agrees with the rendered schedule): for a project list
\* without overrides, for every staff type of the config and every week of the
\* timeline, the load calculateWeeklyAggregates reports is the sum of the hours of
\* generateSchedule's cells for that staff type and week.
C15_AggregatesMatchSchedule ==
    (pc = "ready" /\ NoOverridesIn(projects) /\ ~scheduleData.threw) =>
        \A id \in StaffIdsOfConfig(config) : \A w \in DOMAIN scheduleData.headers :
            calculateWeeklyAggregates(projects, config)[id][w - 1]
                = RenderedLoad(scheduleData, id, w)

-----------------------------------------------------------------------------
(* Silent degradation                                                      *)

\* C16 (silent degradation): generateSchedule returns normally for every input,
\* override entries that name a phase, a staff key or a date the project and the
\* timeline do not have included.
C16_NeverRaises == pc = "ready" => ~scheduleData.threw

-----------------------------------------------------------------------------
(* calculateWeeklyAggregates on its own                                    *)

\* inputs of the aggregator: phases of negative, zero and positive duration,
\* offsets before, on and after the timeline, a slot at 0% and a slot of a staff
\* type the config does not have
AggPhaseLists ==
    {<<Phase("Pre-Planning", 50, mw1, <<Slot(<<"pm">>, 40), Slot(<<"lead">>, 60)>>),
       Phase("Planning", 50, mw2, sl)>> :
        mw1 \in {-1, 0, 2}, mw2 \in {-1, 3},
        sl \in {<<Slot(<<"pm">>, 100), Slot(<<"lead">>, 0)>>,
                <<Slot(<<"pm">>, 50), Slot(Role17, 50)>>}}

AggProjects ==
    {Project("1", b, off, FALSE, ph, NoOverrides) :
        b \in {40, 400}, off \in {-1, 0, 51, 60}, ph \in AggPhaseLists}

AggInputs ==
    {<<p>> : p \in AggProjects} \cup {<<p, GenSecondProject>> : p \in AggProjects}

InitAggregate ==
    /\ config = GenConfig(2026, <<PM, LEAD>>)
    /\ projects \in AggInputs
    /\ scheduleData = None
    /\ pc = "aggregateStart"
    /\ AssignIdle /\ TimingIdle /\ ResultIdle /\ rounded = NoRounding /\ pending = None

\* const loads = calculateWeeklyAggregates(projects, config)
Aggregate ==
    /\ pc = "aggregateStart"
    /\ weeklyLoads' = calculateWeeklyAggregates(projects, config)
    /\ pc' = "aggregated"
    /\ UNCHANGED <<config, projects, scheduleData, workingProjects, tasks, taskIndex,
                   warnings, timingVars, optimized, firstRun, rounded, pending>>

NextAggregate == Aggregate

SpecAggregate == InitAggregate /\ [][NextAggregate]_vars

\* the hours the claimed mapping gives a staff type in week w, the start of phase
\* k being given by start
MappedLoad(projs, staffId, w, start(_, _)) ==
    SumSeq([p \in DOMAIN projs |->
        SumSeq([k \in DOMAIN projs[p].phasesConfig |->
            LET ph == projs[p].phasesConfig[k]
            IN  IF ph.maxWeeks > 0 /\ start(projs[p], k) <= w
                   /\ w < start(projs[p], k) + ph.maxWeeks
                THEN SumSeq([a \in DOMAIN ph.staffAllocation |->
                        LET sa == ph.staffAllocation[a]
                            hours == projs[p].budgetHours * ph.percentBudget * sa.percentage
                        IN  IF sa.staffTypeId = staffId /\ hours > 0
                            THEN CanonicalRound(hours, 100 * 100 * ph.maxWeeks) ELSE 0])
                ELSE 0])])

\* start_k = startWeekOffset + the sum of maxWeeks of the earlier phases
RECURSIVE SumOfEarlier(_, _)
SumOfEarlier(project, k) ==
    IF k = 1 THEN project.startWeekOffset
    ELSE SumOfEarlier(project, k - 1) + project.phasesConfig[k - 1].maxWeeks

\* start_k = startWeekOffset + the sum of the positive maxWeeks of the earlier phases
RECURSIVE SumOfEarlierPositive(_, _)
SumOfEarlierPositive(project, k) ==
    IF k = 1 THEN project.startWeekOffset
    ELSE SumOfEarlierPositive(project, k - 1)
            + (IF project.phasesConfig[k - 1].maxWeeks > 0
               THEN project.phasesConfig[k - 1].maxWeeks ELSE 0)

AggregateShape ==
    /\ StaffIdsOfConfig(config) \subseteq DOMAIN weeklyLoads
    /\ \A id \in DOMAIN weeklyLoads : DOMAIN weeklyLoads[id] = 0..52

\* C17 as stated: the result holds one array of 53 entries per staff type, and
\* every entry is the sum of the rounded rates of the slots whose phase covers the
\* week, the phases starting at startWeekOffset + the sum of maxWeeks of the
\* earlier phases.
C17_AggregatorMapping ==
    pc = "aggregated" =>
        /\ AggregateShape
        /\ \A id \in DOMAIN weeklyLoads : \A w \in 0..52 :
              weeklyLoads[id][w] = MappedLoad(projects, id, w, SumOfEarlier)

\* C17 amended: the same, the phases starting at startWeekOffset + the sum of
\* maxWeeks of the earlier phases that have maxWeeks > 0.
C17_AggregatorMappingPositive ==
    pc = "aggregated" =>
        /\ AggregateShape
        /\ \A id \in DOMAIN weeklyLoads : \A w \in 0..52 :
              weeklyLoads[id][w] = MappedLoad(projects, id, w, SumOfEarlierPositive)

\* a phase that follows a phase of negative duration and loads the last week of
\* the array while part of it falls off
C17_Witness ==
    /\ pc = "aggregated"
    /\ projects[1].phasesConfig[1].maxWeeks < 0
    /\ projects[1].phasesConfig[2].maxWeeks > 0
    /\ projects[1].startWeekOffset = 51
    /\ weeklyLoads[<<"pm">>][52] > 0
    /\ Role17 \in DOMAIN weeklyLoads

-----------------------------------------------------------------------------
(* Effective phases                                                        *)

\* the phases whose weeks [start_k, start_k + maxWeeks_k) hold week index w
PhasesCovering(project, w) ==
    {project.phasesConfig[k].name : k \in
        {j \in DOMAIN project.phasesConfig :
            /\ SumOfEarlier(project, j) <= w
            /\ w < SumOfEarlier(project, j) + project.phasesConfig[j].maxWeeks}}

\* the effective phase the rule gives the week at header position w
RulePhase(project, headers, w) ==
    IF headers[w] \in DOMAIN project.overrides.phase
    THEN project.overrides.phase[headers[w]]
    ELSE IF PhasesCovering(project, w - 1) = {} THEN NoPhase
         ELSE CHOOSE n \in PhasesCovering(project, w - 1) : TRUE

\* C18: the effective phase of every timeline week is the phase override at its date
\* if there is one, else the phase whose weeks (counted from startWeekOffset) hold the
\* week, else none; a project that starts at or past the end of the timeline and has
\* no phase override has no phase on any week.
C18_EffectivePhase ==
    pc = "ready" =>
        \A p \in DOMAIN projects :
            LET project == Resolved(projects[p], config)
                headers == Headers(config.year)
            IN  \A w \in DOMAIN headers :
                    WeeklyPhases(project, headers)[w] = RulePhase(project, headers, w)

-----------------------------------------------------------------------------
(* Cell values                                                             *)

\* max(1, highest split index referenced in the staff type's hour overrides)
RuleSplits(project, staffId) ==
    LET idxs == {k \in 1..MaxSplit : StaffKey(staffId, k) \in DOMAIN project.overrides.staff}
    IN  IF idxs = {} THEN 1 ELSE CHOOSE m \in idxs : \A n \in idxs : n <= m

\* the hours the rule gives a cell without an hour override
RuleHours(project, staffId, phaseName) ==
    IF phaseName # NoPhase /\ HasProfile(project.phasesConfig, phaseName)
       /\ ProfileRate(project, phaseName, staffId)[1] > 0
    THEN CanonicalRound(ProfileRate(project, phaseName, staffId)[1],
                        ProfileRate(project, phaseName, staffId)[2]
                            * RuleSplits(project, staffId))
    ELSE 0

\* C19: in every row, a cell without an hour override holds
\* canonicalRound(rate / numSplits) when the week's effective phase gives the row's
\* staff type a positive rate and 0 otherwise, numSplits being max(1, the highest
\* split index in the staff type's hour overrides), and totalHours is the sum of the
\* row's cells.
C19_CellValueRule ==
    (pc = "ready" /\ ~scheduleData.threw) =>
        \A p \in DOMAIN projects : \A r \in DOMAIN scheduleData.rows :
            scheduleData.rows[r].projectId = projects[p].id =>
                LET project == Resolved(projects[p], config)
                    row     == scheduleData.rows[r]
                    phases  == WeeklyPhases(project, scheduleData.headers)
                IN  /\ \A w \in DOMAIN row.cells :
                          ~HasHourOverride(project, StaffKey(row.staffTypeId, row.staffIndex),
                                           scheduleData.headers[w])
                              => row.cells[w].hours
                                    = RuleHours(project, row.staffTypeId, phases[w])
                    /\ row.totalHours = SumSeq([w \in DOMAIN row.cells |-> row.cells[w].hours])

-----------------------------------------------------------------------------
(* The candidates of a Task                                                *)

\* the slots of the Task's project, as the run has them now
ProjectSlots(task) ==
    {x \in AllSlots(workingProjects) : workingProjects[x[1]].id = task.projectId}

\* the staff types of the config, the placeholder apart, that no slot of the Task's
\* project names
RuleCandidates(task) ==
    {id \in StaffIdsOfConfig(config) \ {PLACEHOLDER} :
        \A x \in ProjectSlots(task) : StaffAt(workingProjects, x) # id}

CandidateIds(task) ==
    LET cands == Candidates(workingProjects, config, task)
    IN  {cands[c].id : c \in DOMAIN cands}

\* C20 (candidate set): when a Task is processed its candidates are exactly the
\* staff types of the config, the placeholder apart, whose id no slot of the Task's
\* project carries at that time (slots bound earlier in the run and slots at 0%
\* included); a pass that binds the Task's slot binds it to one of them.
C20_CandidateSet ==
    /\ []((pc = "assignLoop" /\ taskIndex <= Len(tasks))
            => CandidateIds(tasks[taskIndex]) = RuleCandidates(tasks[taskIndex]))
    /\ [][(pc = "assignLoop" /\ taskIndex' = taskIndex + 1
              /\ SlotStaff(workingProjects', tasks[taskIndex]) # PLACEHOLDER)
            => SlotStaff(workingProjects', tasks[taskIndex])
                  \in RuleCandidates(tasks[taskIndex])]_vars

\* a Task about to be processed whose project has a slot bound earlier in the run
\* and a concrete slot at 0%, both staff types being left out, with a candidate left
C20_Witness ==
    /\ pc = "assignLoop"
    /\ taskIndex > 1 /\ taskIndex <= Len(tasks)
    /\ LET task == tasks[taskIndex]
       IN  /\ \E x \in BoundSlots \cap ProjectSlots(task) :
                 StaffAt(workingProjects, x) \notin CandidateIds(task)
           /\ \E x \in ProjectSlots(task) :
                 /\ workingProjects[x[1]].phasesConfig[x[2]].staffAllocation[x[3]].percentage = 0
                 /\ StaffAt(workingProjects, x) \in StaffIdsOfConfig(config) \ {PLACEHOLDER}
                 /\ StaffAt(workingProjects, x) \notin CandidateIds(task)
           /\ CandidateIds(task) # {}

-----------------------------------------------------------------------------
(* The order of the Tasks                                                  *)

\* t1 is made before t2: project, then phase, then slot order
MadeBefore(t1, t2) ==
    LET p1 == FindProject(projects, t1.projectId)
        p2 == FindProject(projects, t2.projectId)
    IN  \/ p1 < p2
        \/ p1 = p2 /\ t1.phaseIndex < t2.phaseIndex
        \/ p1 = p2 /\ t1.phaseIndex = t2.phaseIndex /\ t1.allocIndex < t2.allocIndex

\* the slots the step changes
ChangedSlots ==
    {x \in AllSlots(workingProjects) : StaffAt(workingProjects', x) # StaffAt(workingProjects, x)}

\* C21 (processing order): the Tasks are processed one after the other in the order
\* of the list, which holds every Task once, in non-increasing order of
\* hoursPerWeek x duration, Tasks of equal effort in project, phase, slot order.
C21_ProcessingOrder ==
    /\ [](pc \in {"assignLoop", "assigned"} =>
            /\ Len(tasks) = Len(AllTasks(projects))
            /\ \A n \in DOMAIN tasks : \E m \in DOMAIN tasks : AllTasks(projects)[n] = tasks[m]
            /\ \A i, j \in DOMAIN tasks :
                  i < j => \/ Effort(tasks[i]) > Effort(tasks[j])
                           \/ /\ Effort(tasks[i]) = Effort(tasks[j])
                              /\ MadeBefore(tasks[i], tasks[j]))
    /\ [][pc = "assignLoop" /\ pc' = "assignLoop" =>
            /\ taskIndex' = taskIndex + 1
            /\ \A x \in ChangedSlots :
                  x = <<FindProject(projects, tasks[taskIndex].projectId),
                        tasks[taskIndex].phaseIndex, tasks[taskIndex].allocIndex>>]_vars

\* a finished run in which a Task made later went first for its larger effort, and
\* two Tasks of equal effort went in the order they were made
C21_Witness ==
    /\ pc = "assigned"
    /\ \E i, j \in DOMAIN tasks :
          i < j /\ MadeBefore(tasks[j], tasks[i]) /\ Effort(tasks[i]) > Effort(tasks[j])
    /\ \E i, j \in DOMAIN tasks :
          i < j /\ Effort(tasks[i]) = Effort(tasks[j]) /\ Effort(tasks[i]) > 0

-----------------------------------------------------------------------------
(* Best fit                                                                *)

\* the score of the rule, the weeks in W being the weeks of the Task that count
RuleScore(staff, task, W) ==
    LET h == task.hoursPerWeek
        running == [w \in W |-> LoadAt(weeklyLoads, staff.id, w)]
        term == [w \in W |->
                    IF running[w] + h > staff.maxHoursPerWeek
                    THEN 0 - 10 * (running[w] + h - staff.maxHoursPerWeek)
                                * (running[w] + h - staff.maxHoursPerWeek)
                    ELSE h]
    IN  (IF staff.team = task.team THEN 50 ELSE 0)
        + SumSeq([n \in DOMAIN task.requiredSkills |->
              IF task.requiredSkills[n] \notin DOMAIN staff.skills THEN 0
              ELSE IF staff.skills[task.requiredSkills[n]] = "Beginner" THEN 10
              ELSE IF staff.skills[task.requiredSkills[n]] = "Intermediate" THEN 20
              ELSE 30])
        + SetSum(W, term)

\* every week of the Task's range
TaskRange(task) == task.startWeek .. (task.startWeek + task.duration - 1)

\* the weeks of the Task's range that the load table can hold
TaskRangeInYear(task) == {w \in TaskRange(task) : w < 53}

\* the staff type of maximal score among the candidates, the first in
\* config.staffTypes order when several tie
RuleBest(task, W) ==
    LET pos == {s \in DOMAIN config.staffTypes :
                   config.staffTypes[s].id \in RuleCandidates(task)}
        best == CHOOSE p \in pos : \A q \in pos :
                    /\ RuleScore(config.staffTypes[q], task, W)
                          <= RuleScore(config.staffTypes[p], task, W)
                    /\ q < p => RuleScore(config.staffTypes[q], task, W)
                                   < RuleScore(config.staffTypes[p], task, W)
    IN  config.staffTypes[best].id

\* C22 as stated: a Task with a candidate is bound to the candidate of maximal
\* score, the first one on a tie, the overtime penalty and the utilization reward
\* being summed over every week of the Task's range.
C22_BestFit ==
    [][(pc = "assignLoop" /\ taskIndex' = taskIndex + 1
           /\ RuleCandidates(tasks[taskIndex]) # {})
         => SlotStaff(workingProjects', tasks[taskIndex])
               = RuleBest(tasks[taskIndex], TaskRange(tasks[taskIndex]))]_vars

\* C22 amended: the same, the overtime penalty and the utilization reward being
\* summed over the weeks of the Task's range whose index is below 53.
C22_BestFitInYear ==
    [][(pc = "assignLoop" /\ taskIndex' = taskIndex + 1
           /\ RuleCandidates(tasks[taskIndex]) # {})
         => SlotStaff(workingProjects', tasks[taskIndex])
               = RuleBest(tasks[taskIndex], TaskRangeInYear(tasks[taskIndex]))]_vars

\* a Task about to be scored, after an earlier binding of the run, that has several
\* candidates and whose best fit is decided by the loads: the bonuses alone would
\* pick another candidate
C22_Witness ==
    /\ pc = "assignLoop"
    /\ taskIndex > 1 /\ taskIndex <= Len(tasks)
    /\ BoundSlots # {}
    /\ Cardinality(RuleCandidates(tasks[taskIndex])) >= 2
    /\ RuleBest(tasks[taskIndex], TaskRangeInYear(tasks[taskIndex]))
          # RuleBest(tasks[taskIndex], {})
    /\ ENABLED AssignBind

-----------------------------------------------------------------------------
(* The running load table                                                  *)

ConcreteStaffIds == StaffIdsOfConfig(config) \ {PLACEHOLDER}

\* C23 (running load table): whenever a Task is about to be scored, and when the
\* run returns, the running load of every concrete staff id in every week 0..52 is
\* the load calculateWeeklyAggregates gives that id for the working project list
\* as it stands.
C23_RunningLoads ==
    pc \in {"assignLoop", "assigned"} =>
        \A id \in ConcreteStaffIds : \A w \in 0..52 :
            LoadAt(weeklyLoads, id, w)
                = calculateWeeklyAggregates(workingProjects, config)[id][w]

-----------------------------------------------------------------------------
(* Greedy acceptance                                                       *)

\* the projects whose offset the step changes
MovedProjects == {i \in DOMAIN bestProjects :
                     bestProjects'[i].startWeekOffset # bestProjects[i].startWeekOffset}

\* C24 (greedy acceptance): at the start of every iteration bestCost is the cost of
\* the current project list; an iteration moves a project only to an offset that
\* gives a strictly lower cost, moves nothing else, and bestCost never increases.
C24_GreedyAcceptance ==
    /\ [](pc = "timingLoop" => bestCost = getCost(bestProjects, config))
    /\ [][(pc = "timingLoop" /\ iter' = iter + 1) =>
            /\ bestCost' <= bestCost
            /\ MovedProjects # {} => /\ getCost(bestProjects', config) < getCost(bestProjects, config)
                                     /\ Cardinality(MovedProjects) = 1
            /\ \A i \in DOMAIN bestProjects :
                  bestProjects'[i] = [bestProjects[i] EXCEPT !.startWeekOffset =
                                         bestProjects'[i].startWeekOffset]]_vars

\* the loop after an iteration that kept a move and before another one
C24_Witness ==
    /\ pc = "timingLoop"
    /\ iter >= 1 /\ iter < IterationBudget
    /\ bestProjects # currentProjects
    /\ bestCost < getCost(currentProjects, config)

-----------------------------------------------------------------------------
(* optimizeProjectTiming with its whole iteration budget                   *)

\* IterateAll that leaves the loop at the first pass that keeps a move
IterateAll_EarlyExit ==
    /\ pc = "timingLoop"
    /\ iter < iterations
    /\ \E idx \in UnlockedIndices(bestProjects) :
       \E newOffset \in 0..MaxStart(bestProjects[idx]) :
          IF /\ newOffset # bestProjects[idx].startWeekOffset
             /\ Accepts(getCost(WithOffset(bestProjects, idx, newOffset), config), bestCost)
          THEN /\ bestProjects' = WithOffset(bestProjects, idx, newOffset)
               /\ bestCost' = getCost(WithOffset(bestProjects, idx, newOffset), config)
               /\ optimized' = ClampOffsets(bestProjects')
               /\ pc' = "timed"
          ELSE UNCHANGED <<bestProjects, bestCost, optimized, pc>>
    /\ iter' = iter + 1
    /\ UNCHANGED <<config, projects, scheduleData, assignVars, currentProjects,
                   firstRun, rounded, pending>>

\* for (let i = 0; i < iterations; i++) { .. }: one pass, the counter running to
\* iterations itself; a pass that samples the current offset `continue`s
IterateAll ==
    /\ pc = "timingLoop"
    /\ iter < iterations
    /\ \E idx \in UnlockedIndices(bestProjects) :
       \E newOffset \in 0..MaxStart(bestProjects[idx]) :
          IF newOffset = bestProjects[idx].startWeekOffset
          THEN UNCHANGED <<bestProjects, bestCost>>
          ELSE LET newCost == getCost(WithOffset(bestProjects, idx, newOffset), config)
               IN  IF Accepts(newCost, bestCost)
                   THEN /\ bestProjects' = WithOffset(bestProjects, idx, newOffset)
                        /\ bestCost' = newCost
                   ELSE UNCHANGED <<bestProjects, bestCost>>
    /\ iter' = iter + 1
    /\ UNCHANGED <<config, projects, scheduleData, pc, assignVars, currentProjects,
                   optimized, firstRun, rounded, pending>>

\* the loop condition fails: the defensive pass and the return
EndAll ==
    /\ pc = "timingLoop"
    /\ iter = iterations
    /\ optimized' = ClampOffsets(bestProjects)
    /\ pc' = "timed"
    /\ UNCHANGED <<config, projects, scheduleData, assignVars, timingVars,
                   firstRun, rounded, pending>>

\* inputs run with the whole budget: an unlocked project of 51 weeks alone, beside a
\* locked project it can move away from, and a project list that is all locked
LoopInputs ==
    {<<TimingProject("1", 51, 0, FALSE, <<"pm">>)>>,
     <<TimingProject("1", 51, 0, FALSE, <<"pm">>), TimingProject("2", 1, 0, TRUE, <<"pm">>)>>,
     <<TimingProject("1", 51, 0, TRUE, <<"pm">>)>>}

InitLoop ==
    /\ config = GenConfig(2026, <<PM, LEAD>>)
    /\ projects \in LoopInputs
    /\ currentProjects = projects
    /\ bestProjects = None /\ bestCost = 0 /\ iter = 0
    /\ scheduleData = None
    /\ pc = "timingStart"
    /\ AssignIdle /\ ResultIdle /\ rounded = NoRounding /\ pending = None

NextLoop == BeginTiming \/ IterateAll \/ EndAll

SpecLoop == InitLoop /\ [][NextLoop]_vars

\* the position of the call moves on: out of the prologue, through one more pass,
\* out of the loop when its condition fails
Advance ==
    \/ pc = "timingStart" /\ pc' \in {"timingLoop", "timed"} /\ iter' = 0
    \/ pc = "timingLoop" /\ iter < iterations /\ iter' = iter + 1 /\ pc' = pc
    \/ pc = "timingLoop" /\ iter = iterations /\ pc' = "timed" /\ iter' = iter

\* the call is sequential code without a wait: its next statement always runs
FairLoop == SpecLoop /\ WF_<<pc, iter>>(Advance)

\* C25 (termination): a call with an unlocked project runs 5000 passes of the loop,
\* a pass that samples the current offset counting as one, returns only after the
\* 5000th, and does return.
C25_Termination ==
    /\ [](pc = "timed" /\ UnlockedIndices(currentProjects) # {} => iter = 5000)
    /\ [][pc = "timingLoop" => (iter' = iter + 1 /\ pc' = "timingLoop")
                                  \/ (iter = 5000 /\ iter' = iter /\ pc' = "timed")]_vars
    /\ <>(pc = "timed")

\* a call that has returned after a pass that kept a move and passes that kept none
C25_Witness ==
    /\ pc = "timed"
    /\ iter = iterations
    /\ UnlockedIndices(currentProjects) # {}
    /\ optimized # currentProjects

-----------------------------------------------------------------------------
(* The cost the optimizer minimizes                                        *)

\* the hours of a staff type in a week, as calculateWeeklyAggregates gives them
HoursOf(projs, id, w) == calculateWeeklyAggregates(projs, config)[id][w]

\* the sum over the staff types and the weeks of the square of the weekly hours
CostPerStaffType(projs) ==
    LET hours == calculateWeeklyAggregates(projs, config)
    IN  SetSum(DOMAIN hours,
               [id \in DOMAIN hours |->
                   SetSum(0..52, [w \in 0..52 |-> hours[id][w] * hours[id][w]])])

\* the sum over the weeks of the square of the hours of all staff types together
CostOfTotal(projs) ==
    LET hours == calculateWeeklyAggregates(projs, config)
        total == [w \in 0..52 |->
                     SetSum(DOMAIN hours, [id \in DOMAIN hours |-> hours[id][w]])]
    IN  SetSum(0..52, [w \in 0..52 |-> total[w] * total[w]])

\* C26 as stated: the cost recorded at the start and after every iteration is the
\* sum over staff types and weeks of the square of the staff type's weekly hours.
C26_CostPerStaffType ==
    pc = "timingLoop" => bestCost = CostPerStaffType(bestProjects)

\* C26 amended: the cost recorded at the start and after every iteration is the sum
\* over the weeks of the square of the hours of all staff types together.
C26_CostOfTotal ==
    pc = "timingLoop" => bestCost = CostOfTotal(bestProjects)

\* the loop after a kept move, two staff types being loaded in one week, so that the
\* two sums differ
C26_Witness ==
    /\ pc = "timingLoop"
    /\ iter >= 1
    /\ bestProjects # currentProjects
    /\ \E w \in 0..52 : /\ HoursOf(bestProjects, <<"pm">>, w) > 0
                        /\ HoursOf(bestProjects, <<"lead">>, w) > 0
    /\ CostPerStaffType(bestProjects) # CostOfTotal(bestProjects)

-----------------------------------------------------------------------------
(* assignStaffToPlaceholders applied to its own result                     *)

\* what a call of assignStaffToPlaceholders returns
AssignReturned == [projects |-> workingProjects, warnings |-> warnings]

\* the first call has returned; the second call is given the list it returned
Reapply ==
    /\ pc = "assigned"
    /\ firstRun = None
    /\ firstRun' = AssignReturned
    /\ projects' = workingProjects
    /\ workingProjects' = None /\ tasks' = None /\ taskIndex' = 0
    /\ weeklyLoads' = None /\ warnings' = None
    /\ pc' = "assignStart"
    /\ UNCHANGED <<config, scheduleData, timingVars, optimized, rounded, pending>>

InitReapply == InitAssign

NextReapply == BeginAssign \/ AssignBind \/ AssignWarn \/ EndAssign \/ Reapply

SpecReapply == InitReapply /\ [][NextReapply]_vars

\* C27 (idempotence): the call on the list the first call returned returns that list
\* unchanged, with the warnings of the first call.
C27_Idempotence ==
    (pc = "assigned" /\ firstRun # None) =>
        /\ workingProjects = firstRun.projects
        /\ warnings = firstRun.warnings

\* a second call that has returned, the first call having bound a slot and left
\* another one unresolved
C27_Witness ==
    /\ pc = "assigned" /\ firstRun # None
    /\ Len(firstRun.warnings) >= 1
    /\ \E x \in AllSlots(projects) : StaffAt(projects, x) \notin {PLACEHOLDER, <<"pm">>, <<"lead">>}
    /\ tasks # <<>>

-----------------------------------------------------------------------------
(* Edits made while an optimize action is pending                          *)

\* C28 (no lost edit): when the optimize action completes, every project of the
\* collection it writes carries the overrides and the budget the project had in the
\* collection just before, edits made since the request included.
C28_NoLostEdit ==
    [][(pc = "timed" /\ pc' = "optimizeDone") =>
          \A p \in DOMAIN projects :
              /\ projects'.optimizedProjects[p].overrides = projects[p].overrides
              /\ projects'.optimizedProjects[p].budgetHours = projects[p].budgetHours]_vars

-----------------------------------------------------------------------------
(* Staff ids of the projects against the config                            *)

\* C29 (referential integrity): every staffTypeId that has a positive percentage in
\* a phase of a project is the id of a staff type of the config.
C29_ReferentialIntegrity ==
    pc = "ready" =>
        \A x \in AllSlots(projects) :
            projects[x[1]].phasesConfig[x[2]].staffAllocation[x[3]].percentage > 0
                => StaffAt(projects, x) \in StaffIdsOfConfig(config)

-----------------------------------------------------------------------------
(* handleAssignmentChange                                                  *)

\* allocations.findIndex(a => a.staffTypeId === id): 0 stands for -1
FindAlloc(allocations, id) ==
    LET found == {a \in DOMAIN allocations : allocations[a].staffTypeId = id}
    IN  IF found = {} THEN 0 ELSE CHOOSE a \in found : \A b \in found : a <= b

\* allocations.splice(index, 1)
Splice(allocations, index) ==
    [a \in 1..(Len(allocations) - 1) |->
        IF a < index THEN allocations[a] ELSE allocations[a + 1]]

\* one phase of newPhases (App.tsx:70-96): the merge writes the sum into the entry
\* of the new id and then removes the entry at the old index
ReassignPhase(phase, oldStaffTypeId, newStaffTypeId) ==
    LET allocations   == phase.staffAllocation
        oldAllocIndex == FindAlloc(allocations, oldStaffTypeId)
        newAllocIndex == FindAlloc(allocations, newStaffTypeId)
    IN  IF oldAllocIndex = 0 THEN phase
        ELSE IF newAllocIndex # 0
        THEN [phase EXCEPT !.staffAllocation =
                 Splice([allocations EXCEPT ![newAllocIndex].percentage =
                            @ + allocations[oldAllocIndex].percentage],
                        oldAllocIndex)]
        ELSE [phase EXCEPT !.staffAllocation[oldAllocIndex].staffTypeId = newStaffTypeId]

\* key.startsWith(oldStaffTypeId + '-')
KeyOfStaff(key, staffTypeId) ==
    /\ Len(key) > Len(staffTypeId)
    /\ SubSeq(key, 1, Len(staffTypeId)) = staffTypeId

\* handleAssignmentChange(projectId, oldStaffTypeId, newStaffTypeId) (App.tsx:62-119)
AssignmentChange(projs, cfg, projectId, oldStaffTypeId, newStaffTypeId) ==
    [i \in 1..Len(projs) |->
        IF projs[i].id # projectId THEN projs[i]
        ELSE LET currentPhases == IF projs[i].phasesConfig # <<>>
                                  THEN projs[i].phasesConfig ELSE cfg.phases
                 old == projs[i].overrides.staff
                 kept == {k \in DOMAIN old : ~KeyOfStaff(k, oldStaffTypeId)}
             IN  [projs[i] EXCEPT
                     !.phasesConfig = [k \in DOMAIN currentPhases |->
                         ReassignPhase(currentPhases[k], oldStaffTypeId, newStaffTypeId)],
                     !.overrides.staff = [k \in kept |-> old[k]]]]

ReassignProjects ==
    {Project("1", 400, 0, FALSE, ph, ov) :
        ph \in {<<Phase("Planning", 100, 4, <<Slot(<<"pm">>, 100)>>)>>,
                <<Phase("Pre-Planning", 10, 2, <<Slot(<<"pm">>, 40), Slot(<<"lead">>, 60)>>),
                  Phase("Planning", 90, 4, <<Slot(<<"pm">>, 10), Slot(PLACEHOLDER, 90)>>)>>},
        ov \in {NoOverrides,
                [phase |-> EmptyMap,
                 staff |-> [k \in {StaffKey(<<"pm">>, 1)} |->
                               [d \in {Headers(2026)[1]} |-> 10]]]}}

InitReassign ==
    /\ config = GenConfig(2026, <<PM, LEAD, PLACEHOLDER_STAFF>>)
    /\ projects \in {<<p, GenSecondProject>> : p \in ReassignProjects}
    /\ scheduleData = generateSchedule(projects, config)
    /\ pc = "ready"
    /\ AssignIdle /\ TimingIdle /\ ResultIdle /\ rounded = NoRounding /\ pending = None

\* the handler is run for a project and a pair of staff ids of the config
HandleAssignmentChange ==
    /\ pc = "ready"
    /\ \E p \in DOMAIN projects, old \in StaffIdsOfConfig(config),
          new \in StaffIdsOfConfig(config) :
          projects' = AssignmentChange(projects, config, projects[p].id, old, new)
    /\ scheduleData' = generateSchedule(projects', config)
    /\ UNCHANGED <<config, pc, assignVars, timingVars, optimized, firstRun, rounded, pending>>

NextReassign == HandleAssignmentChange

SpecReassign == InitReassign /\ [][NextReassign]_vars

PercentSum(phase) ==
    SumSeq([a \in DOMAIN phase.staffAllocation |-> phase.staffAllocation[a].percentage])

NoTwoSlotsOfOneStaff(phase) ==
    \A a, b \in DOMAIN phase.staffAllocation :
        phase.staffAllocation[a].staffTypeId = phase.staffAllocation[b].staffTypeId => a = b

\* C30 (reassignment preserves allocation): a call of handleAssignmentChange changes
\* one project at most, keeps the sum of the allocation percentages of each of its
\* phases, and leaves no phase with two slots of one staff type, for every pair of
\* staff ids, equal ones included.
C30_ReassignmentPreservesAllocation ==
    [][pc = "ready" =>
          /\ Len(projects') = Len(projects)
          /\ Cardinality({p \in DOMAIN projects : projects'[p] # projects[p]}) <= 1
          /\ \A p \in DOMAIN projects :
                /\ Len(projects'[p].phasesConfig) = Len(projects[p].phasesConfig)
                /\ \A k \in DOMAIN projects[p].phasesConfig :
                      /\ PercentSum(projects'[p].phasesConfig[k])
                            = PercentSum(projects[p].phasesConfig[k])
                      /\ NoTwoSlotsOfOneStaff(projects'[p].phasesConfig[k])]_vars

====
